---- MODULE Spec2Model ----
(***************************************************************************)
(* FlowWatcher: the monitoring-and-scheduling engine.                      *)
(*   ActionScheduler     src/core/engine/src/scheduler.rs                  *)
(*   SpeedMonitor        src/core/engine/src/speed.rs                      *)
(*   ThresholdCondition  src/core/conditions/src/threshold.rs              *)
(*                                                                         *)
(* Each component is a record with the fields of the Rust struct.  Every   *)
(* method is an operator from the struct before the call to the struct     *)
(* after the call and the returned value; every action is one call of a    *)
(* method by the owner of the instance.  Each component has its own        *)
(* specification, in which the other components stay as AppState::new()    *)
(* leaves them.                                                            *)
(***************************************************************************)
EXTENDS Integers, Sequences, FiniteSets, TLC

\* Largest pre_warning_secs / countdown_secs given to new().
MaxSecs == 2
\* Largest number of successful schedule() calls in one behaviour.
MaxCycles == 2

VARIABLES
    scheduler,   \* the ActionScheduler instance
    lastOp,      \* the method called last
    ret,         \* what that call returned
    cycles,      \* history: number of successful schedule() calls
    ticks,       \* history: tick() calls since the last successful schedule(),
                 \*   -1 once cancel(), execute_now() or reset() was called
    emitted,     \* history: number of events pushed so far
    event_ids,   \* history: emission numbers of the queued events
    delivered,   \* history: greatest emission number returned by take_events() so far
    monitor,     \* the Option<SpeedMonitor> of AppState
    recent,      \* history: the readings produced since creation or reset,
                 \*   the last window_size of them
    condition,   \* the Option<ThresholdCondition> of AppState
    latched,     \* history: the below_since the last evaluate() or reset() found
    data,        \* history: the TriggerData given to the last evaluate() call,
                 \*   as what data.get() answers for each of the two keys
    sampled,     \* history: what the last get_stats() call returned
    now,         \* the monotonic clock read by Instant::now()
    trigger,     \* the ProcessTrigger instance
    processes,   \* history: the list given to the last evaluate_with_processes()
    status,      \* the MonitoringStatus of AppState
    config,      \* the Option<MonitoringConfig> of AppState
    tasks,       \* the command handlers in flight: each one's position, the
                 \*   guards it holds and its locals
    calls,       \* history: the number of commands invoked so far
    logger,      \* the ActivityLogger of AppState
    added        \* history: the number of add_entry() calls since new() or clear()

schedulerVars == <<scheduler, cycles, ticks, emitted, event_ids, delivered>>
speedVars == <<monitor, recent, sampled>>
conditionVars == <<condition, latched, data>>
triggerVars == <<trigger, processes>>
appVars == <<status, config, tasks, calls>>
loggerVars == <<logger, added>>

\* What the calls on one component leave alone.
exceptScheduler == <<speedVars, conditionVars, now, triggerVars, appVars, loggerVars>>
exceptSpeed == <<schedulerVars, conditionVars, triggerVars, appVars, loggerVars>>
exceptCondition == <<schedulerVars, speedVars, triggerVars, appVars, loggerVars>>
exceptTrigger == <<schedulerVars, speedVars, conditionVars, now, appVars, loggerVars>>
exceptLogger == <<schedulerVars, speedVars, conditionVars, now, triggerVars, appVars>>

vars == <<scheduler, lastOp, ret, cycles, ticks, emitted, event_ids, delivered,
          monitor, recent, sampled, condition, latched, data, now, trigger, processes,
          status, config, tasks, calls, logger, added>>

\* Option<T>
None == [kind |-> "None"]
Some(x) == [kind |-> "Some", value |-> x]

-----------------------------------------------------------------------------
(* AppState as AppState::new() leaves it, apart from the components above *)

\* The greatest number of command handlers in flight at once.
MaxTasks == 2

TaskIds == 1..MaxTasks

\* A task that runs no handler.
NoTask == [cmd |-> "none"]

ActivityLogger_new == [entries |-> <<>>]

AppIdle ==
    /\ status = "Idle"
    /\ config = None
    /\ tasks = [t \in TaskIds |-> NoTask]
    /\ calls = 0
    /\ logger = ActivityLogger_new
    /\ added = 0

-----------------------------------------------------------------------------
(* SchedulerState and SchedulerEvent *)

SchedulerState == {"Idle", "Pending", "Countdown", "Executed", "Cancelled"}

PreWarning(n) == [kind |-> "PreWarning", seconds_until_countdown |-> n]
CountdownStarted(n) == [kind |-> "CountdownStarted", total_seconds |-> n]
CountdownTick(n) == [kind |-> "CountdownTick", remaining_seconds |-> n]
Cancelled == [kind |-> "Cancelled"]
Executed == [kind |-> "Executed"]

\* u64::saturating_sub
saturating_sub(a, b) == IF a >= b THEN a - b ELSE 0

\* Result values of the methods.
Ok == [kind |-> "Ok(())"]
OkTrue == [kind |-> "Ok(true)"]
OkFalse == [kind |-> "Ok(false)"]
InvalidState == [kind |-> "Err(InvalidState)"]
Unit == [kind |-> "()"]
EventList(events) == [kind |-> "Vec", events |-> events]

-----------------------------------------------------------------------------
(* ActionScheduler *)

new(pre_warning_secs, countdown_secs) ==
    [state |-> "Idle",
     pre_warning_secs |-> pre_warning_secs,
     countdown_secs |-> countdown_secs,
     events |-> <<>>,
     elapsed_secs |-> 0]

\* Mutant: the queue is returned as a copy and left as it was.
take_events_clone(events) == [ret |-> events, events |-> events]

\* std::mem::take(&mut self.events): the queue is returned and left empty.
take_events(events) == [ret |-> events, events |-> <<>>]

\* Mutant: re-arming after cancellation is refused.
schedule_idle_only(self) ==
    IF self.state # "Idle"
    THEN [self |-> self, ret |-> InvalidState]
    ELSE [self |-> [self EXCEPT
                      !.state = "Pending",
                      !.elapsed_secs = 0,
                      !.events = Append(@, PreWarning(self.pre_warning_secs))],
          ret |-> Ok]

\* Mutant: with no pre-warning the countdown starts in schedule() itself.
schedule_eager(self) ==
    IF self.state # "Idle" /\ self.state # "Cancelled"
    THEN [self |-> self, ret |-> InvalidState]
    ELSE [self |-> [self EXCEPT
                      !.state = IF self.pre_warning_secs = 0 THEN "Countdown"
                                ELSE "Pending",
                      !.elapsed_secs = 0,
                      !.events = Append(@, PreWarning(self.pre_warning_secs))],
          ret |-> Ok]

schedule(self) ==
    IF self.state # "Idle" /\ self.state # "Cancelled"
    THEN [self |-> self, ret |-> InvalidState]
    ELSE [self |-> [self EXCEPT
                      !.state = "Pending",
                      !.elapsed_secs = 0,
                      !.events = Append(@, PreWarning(self.pre_warning_secs))],
          ret |-> Ok]

\* Mutant: the pre-warning ends one tick late (> for >=).
tick_pending_late(self) ==
    LET elapsed == self.elapsed_secs + 1 IN
    IF elapsed > self.pre_warning_secs
    THEN [self |-> [self EXCEPT
                      !.state = "Countdown",
                      !.elapsed_secs = 0,
                      !.events = Append(@, CountdownStarted(self.countdown_secs))],
          ret |-> OkFalse]
    ELSE [self |-> [self EXCEPT !.elapsed_secs = elapsed], ret |-> OkFalse]

\* Mutant: the countdown starts without elapsed_secs being reset.
tick_pending_keep_elapsed(self) ==
    LET elapsed == self.elapsed_secs + 1 IN
    IF elapsed >= self.pre_warning_secs
    THEN [self |-> [self EXCEPT
                      !.state = "Countdown",
                      !.elapsed_secs = elapsed,
                      !.events = Append(@, CountdownStarted(self.countdown_secs))],
          ret |-> OkFalse]
    ELSE [self |-> [self EXCEPT !.elapsed_secs = elapsed], ret |-> OkFalse]

\* Mutant: every tick in Pending announces the countdown.
tick_pending_announce(self) ==
    LET elapsed == self.elapsed_secs + 1
        announced == Append(self.events, CountdownStarted(self.countdown_secs))
    IN
    IF elapsed >= self.pre_warning_secs
    THEN [self |-> [self EXCEPT
                      !.state = "Countdown", !.elapsed_secs = 0, !.events = announced],
          ret |-> OkFalse]
    ELSE [self |-> [self EXCEPT !.elapsed_secs = elapsed, !.events = announced],
          ret |-> OkFalse]

tick_pending(self) ==
    LET elapsed == self.elapsed_secs + 1 IN
    IF elapsed >= self.pre_warning_secs
    THEN [self |-> [self EXCEPT
                      !.state = "Countdown",
                      !.elapsed_secs = 0,
                      !.events = Append(@, CountdownStarted(self.countdown_secs))],
          ret |-> OkFalse]
    ELSE [self |-> [self EXCEPT !.elapsed_secs = elapsed], ret |-> OkFalse]

\* Mutant: remaining is computed before elapsed_secs is incremented.
tick_countdown_stale(self) ==
    LET elapsed == self.elapsed_secs + 1
        remaining == saturating_sub(self.countdown_secs, self.elapsed_secs)
        ticked == Append(self.events, CountdownTick(remaining))
    IN
    IF remaining = 0
    THEN [self |-> [self EXCEPT
                      !.elapsed_secs = elapsed,
                      !.state = "Executed",
                      !.events = Append(ticked, Executed)],
          ret |-> OkTrue]
    ELSE [self |-> [self EXCEPT !.elapsed_secs = elapsed, !.events = ticked],
          ret |-> OkFalse]

tick_countdown(self) ==
    LET elapsed == self.elapsed_secs + 1
        remaining == saturating_sub(self.countdown_secs, elapsed)
        ticked == Append(self.events, CountdownTick(remaining))
    IN
    IF remaining = 0
    THEN [self |-> [self EXCEPT
                      !.elapsed_secs = elapsed,
                      !.state = "Executed",
                      !.events = Append(ticked, Executed)],
          ret |-> OkTrue]
    ELSE [self |-> [self EXCEPT !.elapsed_secs = elapsed, !.events = ticked],
          ret |-> OkFalse]

\* Mutant: a tick after execution signals the caller again.
tick_resignal(self) ==
    CASE self.state = "Pending" -> tick_pending(self)
      [] self.state = "Countdown" -> tick_countdown(self)
      [] self.state = "Executed" -> [self |-> self, ret |-> OkTrue]
      [] OTHER -> [self |-> self, ret |-> OkFalse]

\* Mutant: a tick after cancellation goes on with the countdown.
tick_after_cancel(self) ==
    CASE self.state = "Pending" -> tick_pending(self)
      [] self.state \in {"Countdown", "Cancelled"} -> tick_countdown(self)
      [] OTHER -> [self |-> self, ret |-> OkFalse]

\* Mutant: a tick outside Pending and Countdown still counts a second.
tick_idle_counts(self) ==
    CASE self.state = "Pending" -> tick_pending(self)
      [] self.state = "Countdown" -> tick_countdown(self)
      [] OTHER -> [self |-> [self EXCEPT !.elapsed_secs = @ + 1], ret |-> OkFalse]

tick(self) ==
    CASE self.state = "Pending" -> tick_pending(self)
      [] self.state = "Countdown" -> tick_countdown(self)
      [] OTHER -> [self |-> self, ret |-> OkFalse]

\* Mutant: cancel() discards the events queued before it.
cancel_flush(self) ==
    IF self.state \in {"Pending", "Countdown"}
    THEN [self |-> [self EXCEPT
                      !.state = "Cancelled",
                      !.elapsed_secs = 0,
                      !.events = <<Cancelled>>],
          ret |-> Ok]
    ELSE [self |-> self, ret |-> InvalidState]

\* Mutant: cancel() is accepted in every state but Executed.
cancel_unguarded(self) ==
    IF self.state # "Executed"
    THEN [self |-> [self EXCEPT
                      !.state = "Cancelled",
                      !.elapsed_secs = 0,
                      !.events = Append(@, Cancelled)],
          ret |-> Ok]
    ELSE [self |-> self, ret |-> InvalidState]

cancel(self) ==
    IF self.state \in {"Pending", "Countdown"}
    THEN [self |-> [self EXCEPT
                      !.state = "Cancelled",
                      !.elapsed_secs = 0,
                      !.events = Append(@, Cancelled)],
          ret |-> Ok]
    ELSE [self |-> self, ret |-> InvalidState]

\* Mutant: execute_now() is accepted during the countdown only.
execute_now_countdown_only(self) ==
    IF self.state = "Countdown"
    THEN [self |-> [self EXCEPT
                      !.state = "Executed",
                      !.elapsed_secs = 0,
                      !.events = Append(@, Executed)],
          ret |-> OkTrue]
    ELSE [self |-> self, ret |-> InvalidState]

\* Mutant: a refused execute_now() still zeroes elapsed_secs.
execute_now_clears_on_error(self) ==
    IF self.state \in {"Pending", "Countdown"}
    THEN [self |-> [self EXCEPT
                      !.state = "Executed",
                      !.elapsed_secs = 0,
                      !.events = Append(@, Executed)],
          ret |-> OkTrue]
    ELSE [self |-> [self EXCEPT !.elapsed_secs = 0], ret |-> InvalidState]

execute_now(self) ==
    IF self.state \in {"Pending", "Countdown"}
    THEN [self |-> [self EXCEPT
                      !.state = "Executed",
                      !.elapsed_secs = 0,
                      !.events = Append(@, Executed)],
          ret |-> OkTrue]
    ELSE [self |-> self, ret |-> InvalidState]

\* Mutant: the event queue is not cleared.
reset_keep_events(self) ==
    [self EXCEPT !.state = "Idle", !.elapsed_secs = 0]

reset(self) ==
    [self EXCEPT !.state = "Idle", !.elapsed_secs = 0, !.events = <<>>]

-----------------------------------------------------------------------------
(* History of the event queue: the n-th event pushed has emission number n. *)

\* Emission numbers of a queue that went from `before` to `after` by pushes.
Pushed(before, after) ==
    event_ids \o [i \in 1..(Len(after) - Len(before)) |-> emitted + i]

\* A call of a method that only pushes events.
Call(op, r) ==
    /\ scheduler' = r.self
    /\ lastOp' = op
    /\ ret' = r.ret
    /\ event_ids' = Pushed(scheduler.events, r.self.events)
    /\ emitted' = emitted + (Len(r.self.events) - Len(scheduler.events))
    /\ UNCHANGED delivered
    /\ UNCHANGED exceptScheduler

-----------------------------------------------------------------------------
(* The calls *)

Init ==
    /\ \E p \in 0..MaxSecs, c \in 0..MaxSecs : scheduler = new(p, c)
    /\ lastOp = "new"
    /\ ret = Unit
    /\ cycles = 0
    /\ ticks = -1
    /\ emitted = 0
    /\ event_ids = <<>>
    /\ delivered = 0
    /\ monitor = None
    /\ recent = <<>>
    /\ sampled = None
    /\ condition = None
    /\ latched = None
    /\ data = [download_bps |-> None, upload_bps |-> None]
    /\ now = 0
    /\ trigger = None
    /\ processes = <<>>
    /\ AppIdle

Schedule ==
    LET r == schedule(scheduler) IN
    /\ r.ret = Ok => cycles < MaxCycles
    /\ Call("schedule", r)
    /\ cycles' = IF r.ret = Ok THEN cycles + 1 ELSE cycles
    /\ ticks' = IF r.ret = Ok THEN 0 ELSE ticks

Tick ==
    /\ Call("tick", tick(scheduler))
    /\ ticks' = IF ticks >= 0
                   /\ ticks <= scheduler.pre_warning_secs + scheduler.countdown_secs + 1
                THEN ticks + 1 ELSE ticks
    /\ UNCHANGED cycles

Cancel ==
    /\ Call("cancel", cancel(scheduler))
    /\ ticks' = -1
    /\ UNCHANGED cycles

ExecuteNow ==
    /\ Call("execute_now", execute_now(scheduler))
    /\ ticks' = -1
    /\ UNCHANGED cycles

Reset ==
    /\ scheduler' = reset(scheduler)
    /\ lastOp' = "reset"
    /\ ret' = Unit
    /\ event_ids' = <<>>
    /\ ticks' = -1
    /\ UNCHANGED <<cycles, emitted, delivered>>
    /\ UNCHANGED exceptScheduler

TakeEvents ==
    LET r == take_events(scheduler.events)
        ids == take_events(event_ids)
    IN
    /\ scheduler' = [scheduler EXCEPT !.events = r.events]
    /\ lastOp' = "take_events"
    /\ ret' = EventList(r.ret)
    /\ event_ids' = ids.events
    /\ delivered' = IF ids.ret = <<>> THEN delivered ELSE ids.ret[Len(ids.ret)]
    /\ UNCHANGED <<cycles, ticks, emitted>>
    /\ UNCHANGED exceptScheduler

Next ==
    \/ Schedule
    \/ Tick
    \/ Cancel
    \/ ExecuteNow
    \/ Reset
    \/ TakeEvents

Spec == Init /\ [][Next]_vars

TypeOK ==
    /\ scheduler.state \in SchedulerState
    /\ scheduler.elapsed_secs \in 0..(MaxSecs + 1)
    /\ Len(event_ids) = Len(scheduler.events)
    /\ cycles \in 0..MaxCycles

-----------------------------------------------------------------------------
(* A run of ticks only: schedule() once, then the owner's one-second ticker *)
(* keeps calling tick() and the caller may drain the queue at any time.     *)

NextTicking ==
    \/ Schedule
    \/ Tick
    \/ TakeEvents

TickingSpec == Init /\ [][NextTicking]_vars /\ WF_vars(Tick)

-----------------------------------------------------------------------------
(* Properties *)

LastEvent == scheduler.events[Len(scheduler.events)]

\* Strictly increasing sequence of numbers, all greater than n.
IncreasingFrom(n, s) ==
    /\ \A i \in 1..Len(s) : n < s[i]
    /\ \A i \in 1..Len(s), j \in 1..Len(s) : i < j => s[i] < s[j]

\* The configuration given to new() is never changed by a method.
SameConfig ==
    /\ scheduler'.pre_warning_secs = scheduler.pre_warning_secs
    /\ scheduler'.countdown_secs = scheduler.countdown_secs

\* C1: schedule() succeeds exactly from Idle or Cancelled; it then sets the
\* state to Pending, elapsed_secs to 0 and appends exactly one
\* PreWarning{pre_warning_secs}; from Pending, Countdown or Executed it fails
\* with InvalidState.
C1_ScheduleContract ==
    [][lastOp' = "schedule" =>
        IF scheduler.state \in {"Idle", "Cancelled"}
        THEN /\ ret' = Ok
             /\ scheduler'.state = "Pending"
             /\ scheduler'.elapsed_secs = 0
             /\ scheduler'.events =
                    Append(scheduler.events, PreWarning(scheduler.pre_warning_secs))
        ELSE ret' = InvalidState]_vars

\* schedule() has re-armed a cancelled scheduler whose Cancelled event is still queued.
C1_Witness ==
    /\ lastOp = "schedule"
    /\ ret = Ok
    /\ cycles = 2
    /\ Len(scheduler.events) >= 2
    /\ scheduler.events[Len(scheduler.events) - 1] = Cancelled

\* C2: every tick() in Countdown increments elapsed_secs and appends exactly
\* one CountdownTick{remaining}, remaining = max(0, countdown_secs - elapsed);
\* iff remaining is 0 it also sets the state to Executed, appends Executed
\* after the CountdownTick and returns true; otherwise it stays in Countdown
\* and returns false.
C2_CountdownTick ==
    [][(lastOp' = "tick" /\ scheduler.state = "Countdown") =>
        LET elapsed == scheduler.elapsed_secs + 1
            diff == scheduler.countdown_secs - elapsed
            remaining == IF diff > 0 THEN diff ELSE 0
        IN
        /\ scheduler'.elapsed_secs = elapsed
        /\ IF remaining = 0
           THEN /\ scheduler'.state = "Executed"
                /\ scheduler'.events =
                       scheduler.events \o <<CountdownTick(0), Executed>>
                /\ ret' = OkTrue
           ELSE /\ scheduler'.state = "Countdown"
                /\ scheduler'.events =
                       Append(scheduler.events, CountdownTick(remaining))
                /\ ret' = OkFalse]_vars

\* The countdown ran out on a tick, after at least one tick that did not end it.
C2_Witness ==
    /\ lastOp = "tick"
    /\ ret = OkTrue
    /\ scheduler.state = "Executed"
    /\ scheduler.countdown_secs = 2
    /\ Len(scheduler.events) >= 3
    /\ scheduler.events[Len(scheduler.events) - 2] = CountdownTick(1)

\* A tick() in Countdown on which remaining reaches 0.
ExpiringTick ==
    /\ lastOp' = "tick"
    /\ scheduler.state = "Countdown"
    /\ saturating_sub(scheduler.countdown_secs, scheduler.elapsed_secs + 1) = 0

\* C3 (as stated): the only call that returns true is a tick() in Countdown
\* on which remaining reaches 0; no other operation ever returns true.
C3_OnlyExpiringTickReturnsTrue ==
    [][ret' = OkTrue => ExpiringTick]_vars

\* C3 (amended): a call returns true only if it is a tick() in Countdown on
\* which remaining reaches 0, or an execute_now() called in Pending or
\* Countdown; schedule, cancel, reset, take_events and every other tick never
\* return true.
C3_TrueOnlyFromExpiryOrExecuteNow ==
    [][ret' = OkTrue =>
        \/ ExpiringTick
        \/ /\ lastOp' = "execute_now"
           /\ scheduler.state \in {"Pending", "Countdown"}]_vars

\* execute_now() has returned true.
C3_Witness ==
    /\ lastOp = "execute_now"
    /\ ret = OkTrue
    /\ scheduler.state = "Executed"

\* C4: cancel() succeeds exactly from Pending or Countdown; it then sets the
\* state to Cancelled, elapsed_secs to 0 and appends exactly one Cancelled
\* event; from Idle, Executed or Cancelled it fails with InvalidState.
C4_CancelContract ==
    [][lastOp' = "cancel" =>
        IF scheduler.state \in {"Pending", "Countdown"}
        THEN /\ ret' = Ok
             /\ scheduler'.state = "Cancelled"
             /\ scheduler'.elapsed_secs = 0
             /\ scheduler'.events = Append(scheduler.events, Cancelled)
        ELSE ret' = InvalidState]_vars

\* cancel() has succeeded during the countdown, after a countdown tick.
C4_Witness ==
    /\ lastOp = "cancel"
    /\ ret = Ok
    /\ scheduler.state = "Cancelled"
    /\ Len(scheduler.events) >= 2
    /\ scheduler.events[Len(scheduler.events) - 1] = CountdownTick(1)

\* C5: execute_now() succeeds exactly from Pending or Countdown; it then sets
\* the state directly to Executed, appends exactly one Executed event and
\* returns true; from Idle, Executed or Cancelled it fails with InvalidState.
C5_ExecuteNowContract ==
    [][lastOp' = "execute_now" =>
        IF scheduler.state \in {"Pending", "Countdown"}
        THEN /\ ret' = OkTrue
             /\ scheduler'.state = "Executed"
             /\ scheduler'.events = Append(scheduler.events, Executed)
        ELSE ret' = InvalidState]_vars

\* execute_now() has succeeded straight from Pending, before any tick.
C5_Witness ==
    /\ lastOp = "execute_now"
    /\ ret = OkTrue
    /\ scheduler.state = "Executed"
    /\ scheduler.pre_warning_secs = 2
    /\ Len(scheduler.events) >= 2
    /\ scheduler.events[Len(scheduler.events) - 1] = PreWarning(2)

\* C6: with pre_warning_secs = p >= 1 and countdown_secs = c >= 1, after
\* schedule() and with ticks only: the state is Pending before the p-th tick,
\* the p-th tick brings it to Countdown and queues CountdownStarted{c}, c
\* further ticks bring it to Executed, ticks 1 .. p + c - 1 return false and
\* tick p + c returns true.
C6_TickCount ==
    LET p == scheduler.pre_warning_secs
        c == scheduler.countdown_secs
    IN
    (p >= 1 /\ c >= 1 /\ ticks >= 0) =>
        /\ ticks < p => scheduler.state = "Pending"
        /\ (p <= ticks /\ ticks < p + c) => scheduler.state = "Countdown"
        /\ ticks >= p + c => scheduler.state = "Executed"
        /\ (lastOp = "tick" /\ ticks = p) =>
               /\ scheduler.events # <<>>
               /\ LastEvent = CountdownStarted(c)
        /\ (lastOp = "tick" /\ ticks < p + c) => ret = OkFalse
        /\ (lastOp = "tick" /\ ticks = p + c) => ret = OkTrue

\* C6: the tick counts above hold, and under continued ticking a scheduled
\* action is eventually executed.
C6_TicksToExecution ==
    /\ []C6_TickCount
    /\ (scheduler.state = "Pending"
           /\ scheduler.pre_warning_secs >= 1
           /\ scheduler.countdown_secs >= 1) ~> (scheduler.state = "Executed")

\* Tick number p + c = 4 of a scheduler with p = 2 and c = 2 has returned true.
C6_Witness ==
    /\ scheduler.pre_warning_secs = 2
    /\ scheduler.countdown_secs = 2
    /\ ticks = 4
    /\ lastOp = "tick"
    /\ ret = OkTrue
    /\ scheduler.state = "Executed"

\* C7: every tick() in Pending returns false; when the incremented
\* elapsed_secs reaches pre_warning_secs it sets the state to Countdown,
\* resets elapsed_secs to 0 and appends exactly one
\* CountdownStarted{countdown_secs}; on earlier ticks it increments
\* elapsed_secs, appends no event and stays Pending.
C7_PendingTick ==
    [][(lastOp' = "tick" /\ scheduler.state = "Pending") =>
        /\ ret' = OkFalse
        /\ IF scheduler.elapsed_secs + 1 >= scheduler.pre_warning_secs
           THEN /\ scheduler'.state = "Countdown"
                /\ scheduler'.elapsed_secs = 0
                /\ scheduler'.events =
                       Append(scheduler.events, CountdownStarted(scheduler.countdown_secs))
           ELSE /\ scheduler'.state = "Pending"
                /\ scheduler'.elapsed_secs = scheduler.elapsed_secs + 1
                /\ scheduler'.events = scheduler.events]_vars

\* The second tick of a pre-warning of 2 seconds has started the countdown.
C7_Witness ==
    /\ lastOp = "tick"
    /\ ticks = 2
    /\ scheduler.pre_warning_secs = 2
    /\ scheduler.state = "Countdown"
    /\ scheduler.elapsed_secs = 0
    /\ scheduler.events # <<>>
    /\ LastEvent = CountdownStarted(scheduler.countdown_secs)

\* C8: reset() never fails and from every state leaves state Idle,
\* elapsed_secs 0 and an empty event queue (so no event is emitted, no
\* Cancelled in particular) and leaves pre_warning_secs and countdown_secs
\* unchanged.
C8_ResetContract ==
    [][lastOp' = "reset" =>
        /\ ret' = Unit
        /\ scheduler'.state = "Idle"
        /\ scheduler'.elapsed_secs = 0
        /\ scheduler'.events = <<>>
        /\ SameConfig]_vars

\* reset() has dropped events that were queued and never drained, in the
\* second cycle of the scheduler.
C8_Witness ==
    /\ lastOp = "reset"
    /\ scheduler.state = "Idle"
    /\ cycles = 2
    /\ emitted > delivered

\* C9: take_events() returns all queued events in emission order and leaves
\* the queue empty; no emitted event is returned by more than one
\* take_events() call, and the events are received in emission order: every
\* queued event was emitted after every event returned so far.
C9_DrainOnce ==
    /\ [][lastOp' = "take_events" =>
            /\ ret' = EventList(scheduler.events)
            /\ scheduler'.events = <<>>]_vars
    /\ [](IncreasingFrom(delivered, event_ids))

\* take_events() has returned a batch of two or more events that were
\* emitted after earlier events had been drained.
C9_Witness ==
    /\ lastOp = "take_events"
    /\ Len(ret.events) >= 2
    /\ delivered = emitted
    /\ delivered > Len(ret.events)
    /\ cycles = 1
    /\ scheduler.events = <<>>

\* C10 (as stated): immediately after any operation that changes the
\* scheduler state, elapsed_secs equals 0.
C10_ElapsedZeroAfterTransition ==
    [][scheduler'.state # scheduler.state => scheduler'.elapsed_secs = 0]_vars

\* s is an initial segment of t.
IsPrefix(s, t) == Len(s) <= Len(t) /\ SubSeq(t, 1, Len(s)) = s

\* C11 (as stated): no operation other than take_events() removes or reorders
\* queued events, so the queue length is non-decreasing over every operation
\* other than take_events().
C11_QueueOnlyGrows ==
    [][lastOp' # "take_events" =>
        IsPrefix(scheduler.events, scheduler'.events)]_vars

\* C11 (amended): no operation other than take_events() and reset() removes
\* or reorders queued events: over schedule, tick, cancel and execute_now the
\* queue before the call is an initial segment of the queue after it.
C11_QueueGrowsBetweenDrainsAndResets ==
    [][lastOp' \notin {"take_events", "reset"} =>
        IsPrefix(scheduler.events, scheduler'.events)]_vars

\* A cancel() has appended to a queue that had grown over schedule and ticks.
C11_Witness ==
    /\ lastOp = "cancel"
    /\ ret = Ok
    /\ Len(scheduler.events) >= 4
    /\ delivered = 0

-----------------------------------------------------------------------------
(* Numbers.  u64 is scaled to WordBits bits and the significand of f64 to   *)
(* MantissaBits bits (64 and 53 in the build); an Instant is a number of    *)
(* clock units, UnitsPerSec of them to the second.                          *)

\* Width of a u64.
WordBits == 4
\* Width of the significand of an f64.
MantissaBits == 3
\* Resolution of Instant.
UnitsPerSec == 2
\* Latest Instant a snapshot or a clock reading carries.
MaxTime == 3
\* Largest window_size given to SpeedMonitor::new() by a direct caller.
MaxWindow == 2

U64Max == 2^WordBits - 1

\* An f64 is the rational <<numerator, denominator>> it stands for.
\* The nearest f64 to n / d (n >= 0, d > 0), ties to even.
RoundToF64(n, d) ==
    IF n = 0 THEN <<0, 1>>
    ELSE LET up(e) == IF e > 0 THEN 2^e ELSE 1
             down(e) == IF e < 0 THEN 2^(0 - e) ELSE 1
             e == CHOOSE x \in (0 - 2 * WordBits)..(2 * WordBits) :
                     /\ 2^(MantissaBits - 1) * d * up(x) <= n * down(x)
                     /\ n * down(x) < 2^MantissaBits * d * up(x)
             N == n * down(e)
             D == d * up(e)
             f == N \div D
             r == N % D
             m == IF 2 * r < D THEN f
                  ELSE IF 2 * r > D THEN f + 1
                  ELSE IF f % 2 = 0 THEN f ELSE f + 1
         IN <<m * up(e), down(e)>>

\* `n as f64`
u64_as_f64(n) == RoundToF64(n, 1)

\* Duration::as_secs_f64
as_secs_f64(units) == RoundToF64(units, UnitsPerSec)

\* f64 division
f64_div(a, b) == RoundToF64(a[1] * b[2], a[2] * b[1])

\* `x as u64`: truncates and saturates.
f64_as_u64(x) ==
    LET t == x[1] \div x[2] IN IF t > U64Max THEN U64Max ELSE t

\* Instant::duration_since: zero when `earlier` is the later one.
duration_since(later, earlier) == IF later >= earlier THEN later - earlier ELSE 0

\* An arithmetic result: a value, or the overflow panic of a checked build.
U64(v) == [kind |-> "u64", value |-> v]
Panic == [kind |-> "panic"]

\* Iterator::sum over u64: on overflow a build with overflow checks panics
\* and a build without them wraps.
RECURSIVE Total(_)
Total(s) == IF s = <<>> THEN 0 ELSE Head(s) + Total(Tail(s))

sum_u64(s) ==
    IF Total(s) <= U64Max THEN {U64(Total(s))}
    ELSE {Panic, U64(Total(s) % 2^WordBits)}

-----------------------------------------------------------------------------
(* NetworkProvider::get_stats *)

NetworkStats(received, sent, timestamp) ==
    [bytes_sent |-> sent, bytes_received |-> received, timestamp |-> timestamp]

NetworkError == [kind |-> "Err(NetworkError)"]
StatsOk(stats) == [kind |-> "Ok", stats |-> stats]

\* Counter pairs <<bytes_received, bytes_sent>> the source reports.
CounterSamples == {<<0, 0>>, <<1, 0>>, <<2^MantissaBits + 1, 1>>}

\* What get_stats can return at Instant t.
SourceResults(t) ==
    {NetworkError} \cup {StatsOk(NetworkStats(c[1], c[2], t)) : c \in CounterSamples}

-----------------------------------------------------------------------------
(* SpeedMonitor *)

SpeedReading(download, upload) == [download_bps |-> download, upload_bps |-> upload]

PollNone == [kind |-> "Ok(None)"]
PollSome(reading) == [kind |-> "Ok(Some)", reading |-> reading]

SpeedMonitor_new(interface_id, window_size) ==
    [interface_id |-> interface_id,
     last_stats |-> None,
     history |-> <<>>,
     window_size |-> window_size]

\* VecDeque::pop_front: nothing to remove from an empty queue.
pop_front(q) == IF q = <<>> THEN q ELSE Tail(q)

rolling_push(history, window_size, reading) ==
    Append(IF Len(history) >= window_size THEN pop_front(history) ELSE history,
           reading)

compute_reading(prev, current, elapsed_secs) ==
    LET download_delta == saturating_sub(current.bytes_received, prev.bytes_received)
        upload_delta == saturating_sub(current.bytes_sent, prev.bytes_sent)
    IN SpeedReading(f64_as_u64(f64_div(u64_as_f64(download_delta), elapsed_secs)),
                    f64_as_u64(f64_div(u64_as_f64(upload_delta), elapsed_secs)))

\* Mutant: a poll that yields no reading keeps the previous snapshot.
SpeedMonitor_poll_keep_snapshot(self, source) ==
    IF source.kind # "Ok"
    THEN [self |-> self, ret |-> NetworkError]
    ELSE LET current == source.stats IN
         IF self.last_stats = None
         THEN [self |-> [self EXCEPT !.last_stats = Some(current)], ret |-> PollNone]
         ELSE LET prev == self.last_stats.value
                  elapsed_secs == as_secs_f64(duration_since(current.timestamp,
                                                             prev.timestamp))
              IN
              IF elapsed_secs[1] <= 0
              THEN [self |-> self, ret |-> PollNone]
              ELSE LET reading == compute_reading(prev, current, elapsed_secs) IN
                   [self |-> [self EXCEPT
                                !.last_stats = Some(current),
                                !.history = rolling_push(@, self.window_size, reading)],
                    ret |-> PollSome(reading)]

SpeedMonitor_poll(self, source) ==
    IF source.kind # "Ok"
    THEN [self |-> self, ret |-> NetworkError]
    ELSE LET current == source.stats
             baseline == [self EXCEPT !.last_stats = Some(current)]
         IN
         IF self.last_stats = None
         THEN [self |-> baseline, ret |-> PollNone]
         ELSE LET prev == self.last_stats.value
                  elapsed == duration_since(current.timestamp, prev.timestamp)
                  elapsed_secs == as_secs_f64(elapsed)
              IN
              IF elapsed_secs[1] <= 0
              THEN [self |-> baseline, ret |-> PollNone]
              ELSE LET reading == compute_reading(prev, current, elapsed_secs) IN
                   [self |-> [baseline EXCEPT
                                !.history = rolling_push(@, self.window_size, reading)],
                    ret |-> PollSome(reading)]

rolling_average(values) ==
    IF values = <<>> THEN {U64(0)}
    ELSE {IF s.kind = "u64" THEN U64(s.value \div Len(values)) ELSE s :
            s \in sum_u64(values)}

\* The outcomes of current_download_speed().
current_download_speed(self) ==
    rolling_average([i \in 1..Len(self.history) |-> self.history[i].download_bps])

\* The outcomes of current_upload_speed().
current_upload_speed(self) ==
    rolling_average([i \in 1..Len(self.history) |-> self.history[i].upload_bps])

latest_reading(self) ==
    IF self.history = <<>> THEN None ELSE Some(self.history[Len(self.history)])

\* Mutant: reset() clears the history only.
SpeedMonitor_reset_keep_snapshot(self) == [self EXCEPT !.history = <<>>]

SpeedMonitor_reset(self) ==
    [self EXCEPT !.last_stats = None, !.history = <<>>]

-----------------------------------------------------------------------------
(* get_current_speed (commands.rs): the handler holds the speed_monitor and *)
(* network_provider locks from its first line to its last.                  *)

\* Window of the monitors the command handlers create.
DefaultWindow == 3

SpeedData(download, upload) ==
    [kind |-> "Ok(SpeedData)", download_bps |-> download, upload_bps |-> upload]
ErrString == [kind |-> "Err(String)"]

\* What get_default_interface can return.
DefaultInterfaceResults ==
    {NetworkError, [kind |-> "Ok", iface |-> None], [kind |-> "Ok", iface |-> Some("eth0")]}

\* The outcomes of one call: the monitor it leaves, what its poll returned
\* and what it replies.
get_current_speed(guard, default, source) ==
    IF guard = None /\ default.kind # "Ok"
    THEN {[monitor |-> None, polled |-> None, reply |-> ErrString]}
    ELSE LET created ==
                 IF guard = None
                 THEN SpeedMonitor_new(IF default.iface = None THEN "unknown"
                                       ELSE default.iface.value, DefaultWindow)
                 ELSE guard.value
             r == SpeedMonitor_poll(created, source)
         IN
         CASE r.ret.kind = "Ok(Some)" ->
                {[monitor |-> Some(r.self), polled |-> r.ret,
                  reply |-> SpeedData(r.ret.reading.download_bps,
                                      r.ret.reading.upload_bps)]}
           [] r.ret.kind = "Ok(None)" ->
                {[monitor |-> Some(r.self), polled |-> r.ret, reply |-> SpeedData(0, 0)]}
           [] OTHER ->
                {[monitor |-> Some(r.self), polled |-> r.ret,
                  reply |-> IF d.kind = "u64" /\ u.kind = "u64"
                            THEN SpeedData(d.value, u.value) ELSE Panic] :
                    d \in current_download_speed(r.self),
                    u \in current_upload_speed(r.self)}

-----------------------------------------------------------------------------
(* The calls on the speed monitor *)

\* The last n elements of s.
LastN(s, n) == IF Len(s) <= n THEN s ELSE SubSeq(s, Len(s) - n + 1, Len(s))

\* The history of readings after a poll that returned `polled`.
Produced(polled, window_size) ==
    IF polled.kind = "Ok(Some)"
    THEN LastN(Append(recent, polled.reading), window_size)
    ELSE recent

SpeedInit ==
    /\ scheduler = new(60, 30)
    /\ lastOp = "new"
    /\ ret = Unit
    /\ cycles = 0
    /\ ticks = -1
    /\ emitted = 0
    /\ event_ids = <<>>
    /\ delivered = 0
    /\ monitor \in {None} \cup {Some(SpeedMonitor_new("eth0", w)) : w \in 0..MaxWindow}
    /\ recent = <<>>
    /\ sampled = None
    /\ condition = None
    /\ latched = None
    /\ data = [download_bps |-> None, upload_bps |-> None]
    /\ now = 0
    /\ trigger = None
    /\ processes = <<>>
    /\ AppIdle

Poll ==
    /\ monitor # None
    /\ \E t \in now..MaxTime :
         \E source \in SourceResults(t) :
            LET r == SpeedMonitor_poll(monitor.value, source) IN
            /\ now' = t
            /\ monitor' = Some(r.self)
            /\ lastOp' = "poll"
            /\ ret' = r.ret
            /\ recent' = Produced(r.ret, r.self.window_size)
            /\ sampled' = source
    /\ UNCHANGED exceptSpeed

CurrentSpeeds ==
    /\ monitor # None
    /\ \E d \in current_download_speed(monitor.value),
          u \in current_upload_speed(monitor.value) :
         ret' = [download |-> d, upload |-> u, latest |-> latest_reading(monitor.value)]
    /\ lastOp' = "current_speed"
    /\ UNCHANGED <<speedVars, now, exceptSpeed>>

ResetMonitor ==
    /\ monitor # None
    /\ monitor' = Some(SpeedMonitor_reset(monitor.value))
    /\ lastOp' = "monitor_reset"
    /\ ret' = Unit
    /\ recent' = <<>>
    /\ UNCHANGED <<sampled, now, exceptSpeed>>

GetCurrentSpeed ==
    /\ \E t \in now..MaxTime :
         \E default \in IF monitor = None THEN DefaultInterfaceResults ELSE {None},
            source \in SourceResults(t) :
            \E o \in get_current_speed(monitor, default, source) :
               /\ now' = t
               /\ monitor' = o.monitor
               /\ lastOp' = "get_current_speed"
               /\ ret' = o.reply
               /\ recent' = IF o.monitor = None THEN recent
                            ELSE Produced(o.polled, o.monitor.value.window_size)
               /\ sampled' = IF o.monitor = None THEN sampled ELSE source
    /\ UNCHANGED exceptSpeed

SpeedNext ==
    \/ Poll
    \/ CurrentSpeeds
    \/ ResetMonitor
    \/ GetCurrentSpeed

SpeedSpec == SpeedInit /\ [][SpeedNext]_vars

-----------------------------------------------------------------------------
(* Properties of the speed monitor, checked under SpeedSpec *)

\* C12: when get_stats succeeds, poll() returns None exactly when there is no
\* previous snapshot or the new snapshot's timestamp is not later than the
\* previous one's; it then leaves the history as it was, and otherwise the
\* reading it returns is the newest entry of the history. In every case the
\* new snapshot becomes last_stats.
C12_PollNoneCases ==
    [][lastOp' = "poll" /\ sampled'.kind = "Ok" =>
         LET self == monitor.value
             after == monitor'.value
             current == sampled'.stats
             first == self.last_stats = None
             notLater == /\ ~first
                         /\ current.timestamp <= self.last_stats.value.timestamp
         IN /\ ret' = PollNone <=> first \/ notLater
            /\ ret' = PollNone => after.history = self.history
            /\ ret' # PollNone =>
                 /\ ret'.kind = "Ok(Some)"
                 /\ after.history # <<>>
                 /\ after.history[Len(after.history)] = ret'.reading
            /\ after.last_stats = Some(current)
            /\ after.interface_id = self.interface_id
            /\ after.window_size = self.window_size]_vars

\* A poll at the Instant of the previous snapshot, with other counters, has
\* returned None while a reading is in the history.
C12_Witness ==
    /\ lastOp = "poll"
    /\ ret = PollNone
    /\ monitor.value.history # <<>>
    /\ sampled.kind = "Ok"
    /\ sampled.stats.bytes_received > monitor.value.history[1].download_bps
    /\ monitor.value.last_stats = Some(sampled.stats)

\* C13: a poll with positive elapsed time yields, for each direction, the
\* exact quotient floor(max(0, now - prev) / elapsed seconds) of the counters
\* (so the delta itself when the snapshots are one second apart).
C13_ReadingIsFloorOfDeltaOverElapsed ==
    [][lastOp' = "poll" /\ ret'.kind = "Ok(Some)" =>
         LET prev == monitor.value.last_stats.value
             current == sampled'.stats
             elapsed == current.timestamp - prev.timestamp
             rate(after, before) ==
                 ((IF after > before THEN after - before ELSE 0) * UnitsPerSec)
                     \div elapsed
         IN ret'.reading = SpeedReading(rate(current.bytes_received, prev.bytes_received),
                                        rate(current.bytes_sent, prev.bytes_sent))]_vars

\* C14: in every reachable state the history of a monitor holds at most
\* window_size readings, whatever window_size (0 included) it was created with.
C14_HistoryWithinWindow ==
    monitor # None => Len(monitor.value.history) <= monitor.value.window_size

RECURSIVE Column(_, _)
\* The field `key` of each reading of a history.
Column(history, key) ==
    IF history = <<>> THEN <<>>
    ELSE <<history[1][key]>> \o Column(Tail(history), key)

\* The integer-truncated mean of a sequence of numbers, 0 for none.
Mean(values) == IF values = <<>> THEN 0 ELSE Total(values) \div Len(values)

\* C15: the history is the last min(n, window_size) readings produced since
\* creation or reset, oldest first, and the two current speeds are the
\* truncated means of its download and upload values (0 when it is empty).
C15_WindowAndMean ==
    monitor # None =>
        /\ monitor.value.history = recent
        /\ current_download_speed(monitor.value) =
               {U64(Mean(Column(recent, "download_bps")))}
        /\ current_upload_speed(monitor.value) =
               {U64(Mean(Column(recent, "upload_bps")))}

\* C16: reset() leaves the monitor as new() makes it for the same interface_id
\* and window_size: no snapshot, no history. Both current speeds are then 0,
\* latest_reading() is None, and a poll of any snapshot returns None and only
\* stores that snapshot.
C16_ResetContract ==
    [][lastOp' = "monitor_reset" =>
         LET self == monitor.value
             after == monitor'.value
         IN /\ after = SpeedMonitor_new(self.interface_id, self.window_size)
            /\ after.last_stats = None
            /\ after.history = <<>>
            /\ current_download_speed(after) = {U64(0)}
            /\ current_upload_speed(after) = {U64(0)}
            /\ latest_reading(after) = None
            /\ \A t \in now..MaxTime :
                 \A source \in SourceResults(t) \ {NetworkError} :
                    SpeedMonitor_poll(after, source) =
                        [self |-> [after EXCEPT !.last_stats = Some(source.stats)],
                         ret |-> PollNone]]_vars

\* reset() has cleared the snapshot of a successful poll made after time 0.
C16_Witness ==
    /\ lastOp = "monitor_reset"
    /\ sampled.kind = "Ok"
    /\ sampled.stats.timestamp > 0
    /\ monitor.value.last_stats = None
    /\ monitor.value.window_size > 0

\* C17: when get_stats fails, poll() returns the error and leaves the monitor
\* as it was, and get_current_speed replies with the monitor's unchanged
\* current download and upload speeds instead of an error.
C17_SourceFailureFallsBack ==
    [][sampled' = NetworkError =>
         /\ lastOp' = "poll" => ret' = NetworkError /\ monitor' = monitor
         /\ lastOp' = "get_current_speed" /\ monitor' # None =>
              /\ monitor # None => monitor' = monitor
              /\ ret'.kind = "Ok(SpeedData)"
              /\ U64(ret'.download_bps) \in current_download_speed(monitor'.value)
              /\ U64(ret'.upload_bps) \in current_upload_speed(monitor'.value)]_vars

-----------------------------------------------------------------------------
(* ThresholdCondition *)

\* Largest speed and threshold, in bytes per second.
MaxBps == 1

MonitorMode == {"DownloadOnly", "UploadOnly", "Both"}

\* A TriggerValue that is not a U64.
F64Value == [kind |-> "f64"]

\* What data.get(key) can answer.
Entries == {None} \cup {Some(U64(v)) : v \in 0..MaxBps} \cup {Some(F64Value)}
TriggerData == [download_bps : Entries, upload_bps : Entries]

Waiting == [kind |-> "Ok(Waiting)"]
InProgress(elapsed) == [kind |-> "Ok(InProgress)", elapsed_secs |-> elapsed]
Met == [kind |-> "Ok(Met)"]
MissingData(message) == [kind |-> "Err(MissingData)", message |-> message]
OkValue(v) == [kind |-> "Ok", value |-> v]

ThresholdCondition_new(threshold_bytes_per_sec, required_duration_secs, monitor_mode) ==
    [threshold_bytes_per_sec |-> threshold_bytes_per_sec,
     required_duration_secs |-> required_duration_secs,
     monitor_mode |-> monitor_mode,
     below_since |-> None]

extract_u64(d, key) ==
    LET got == d[key] IN
    IF got = None THEN MissingData(<<key>>)
    ELSE IF got.value.kind = "u64" THEN OkValue(got.value.value)
    ELSE MissingData(<<key, " is not a u64 value">>)

\* Mutant: in Both mode one direction below the threshold is enough.
is_below_threshold_either(self, d) ==
    LET download == extract_u64(d, "download_bps")
        upload == extract_u64(d, "upload_bps")
    IN IF download.kind # "Ok" THEN download
       ELSE IF upload.kind # "Ok" THEN upload
       ELSE OkValue(CASE self.monitor_mode = "DownloadOnly" ->
                           download.value < self.threshold_bytes_per_sec
                      [] self.monitor_mode = "UploadOnly" ->
                           upload.value < self.threshold_bytes_per_sec
                      [] self.monitor_mode = "Both" ->
                           \/ download.value < self.threshold_bytes_per_sec
                           \/ upload.value < self.threshold_bytes_per_sec)

is_below_threshold(self, d) ==
    LET download == extract_u64(d, "download_bps")
        upload == extract_u64(d, "upload_bps")
    IN IF download.kind # "Ok" THEN download
       ELSE IF upload.kind # "Ok" THEN upload
       ELSE OkValue(CASE self.monitor_mode = "DownloadOnly" ->
                           download.value < self.threshold_bytes_per_sec
                      [] self.monitor_mode = "UploadOnly" ->
                           upload.value < self.threshold_bytes_per_sec
                      [] self.monitor_mode = "Both" ->
                           /\ download.value < self.threshold_bytes_per_sec
                           /\ upload.value < self.threshold_bytes_per_sec)

\* Mutant: the sub-second part of the duration is taken for its seconds.
subsec(units) == units % UnitsPerSec

\* Duration::as_secs
as_secs(units) == units \div UnitsPerSec

\* Mutant: every below-threshold call restarts the timer.
evaluate_relatch(self, d, t) ==
    LET below == is_below_threshold(self, d) IN
    IF below.kind # "Ok" THEN [self |-> self, ret |-> below]
    ELSE IF below.value
    THEN [self |-> [self EXCEPT !.below_since = Some(t)],
          ret |-> IF 0 >= self.required_duration_secs THEN Met ELSE InProgress(0)]
    ELSE [self |-> [self EXCEPT !.below_since = None], ret |-> Waiting]

\* Mutant: an above-threshold call keeps the timer running.
evaluate_keep_latch(self, d, t) ==
    LET below == is_below_threshold(self, d) IN
    IF below.kind # "Ok" THEN [self |-> self, ret |-> below]
    ELSE IF below.value
    THEN LET since == IF self.below_since = None THEN t ELSE self.below_since.value
             elapsed == as_secs(duration_since(t, since))
         IN [self |-> [self EXCEPT !.below_since = Some(since)],
             ret |-> IF elapsed >= self.required_duration_secs
                     THEN Met ELSE InProgress(elapsed)]
    ELSE [self |-> self, ret |-> Waiting]

\* evaluate() when Instant::now() reads t.
\* Mutant: a bag without the metric ends the streak.
evaluate_err_resets(self, d, t) ==
    LET below == is_below_threshold(self, d) IN
    IF below.kind # "Ok" THEN [self |-> [self EXCEPT !.below_since = None], ret |-> below]
    ELSE IF below.value
    THEN LET since == IF self.below_since = None THEN t ELSE self.below_since.value
             elapsed == as_secs(duration_since(t, since))
         IN [self |-> [self EXCEPT !.below_since = Some(since)],
             ret |-> IF elapsed >= self.required_duration_secs
                     THEN Met ELSE InProgress(elapsed)]
    ELSE [self |-> [self EXCEPT !.below_since = None], ret |-> Waiting]

evaluate(self, d, t) ==
    LET below == is_below_threshold(self, d) IN
    IF below.kind # "Ok" THEN [self |-> self, ret |-> below]
    ELSE IF below.value
    THEN LET since == IF self.below_since = None THEN t ELSE self.below_since.value
             elapsed == as_secs(duration_since(t, since))
         IN [self |-> [self EXCEPT !.below_since = Some(since)],
             ret |-> IF elapsed >= self.required_duration_secs
                     THEN Met ELSE InProgress(elapsed)]
    ELSE [self |-> [self EXCEPT !.below_since = None], ret |-> Waiting]

ThresholdCondition_reset(self) == [self EXCEPT !.below_since = None]

ConditionInit ==
    /\ scheduler = new(60, 30)
    /\ lastOp = "new"
    /\ ret = Unit
    /\ cycles = 0
    /\ ticks = -1
    /\ emitted = 0
    /\ event_ids = <<>>
    /\ delivered = 0
    /\ monitor = None
    /\ recent = <<>>
    /\ sampled = None
    /\ \E threshold \in 0..MaxBps, required \in 0..MaxSecs, mode \in MonitorMode :
         condition = Some(ThresholdCondition_new(threshold, required, mode))
    /\ latched = None
    /\ data = [download_bps |-> None, upload_bps |-> None]
    /\ now = 0
    /\ trigger = None
    /\ processes = <<>>
    /\ AppIdle

Evaluate ==
    /\ condition # None
    /\ \E t \in now..MaxTime, d \in TriggerData :
         LET r == evaluate(condition.value, d, t) IN
         /\ now' = t
         /\ data' = d
         /\ latched' = condition.value.below_since
         /\ condition' = Some(r.self)
         /\ lastOp' = "evaluate"
         /\ ret' = r.ret
    /\ UNCHANGED exceptCondition

ResetCondition ==
    /\ condition # None
    /\ condition' = Some(ThresholdCondition_reset(condition.value))
    /\ latched' = condition.value.below_since
    /\ lastOp' = "condition_reset"
    /\ ret' = Unit
    /\ UNCHANGED <<data, now, exceptCondition>>

ConditionNext ==
    \/ Evaluate
    \/ ResetCondition

ConditionSpec == ConditionInit /\ [][ConditionNext]_vars

-----------------------------------------------------------------------------
(* Properties of the threshold condition, checked under ConditionSpec *)

\* The value under `key` is an unsigned integer.
IsU64(d, key) == d[key] # None /\ d[key].value.kind = "u64"

\* The keys the configured mode compares.
ModeKeys(mode) ==
    CASE mode = "DownloadOnly" -> {"download_bps"}
      [] mode = "UploadOnly" -> {"upload_bps"}
      [] mode = "Both" -> {"download_bps", "upload_bps"}

\* C18: evaluate() fails with the missing-metric error exactly when a key the
\* configured mode compares is absent or not an unsigned integer; a bag that
\* lacks only the other key is evaluated normally.
C18_MissingMetricByMode ==
    [][lastOp' = "evaluate" =>
         (ret'.kind = "Err(MissingData)" <=>
            \E key \in ModeKeys(condition.value.monitor_mode) : ~IsU64(data', key))]_vars

\* C19: on a bag holding both speeds, the predicate is download < threshold in
\* DownloadOnly mode, upload < threshold in UploadOnly mode and both of them in
\* Both mode, with strict comparisons; evaluate() returns InProgress or Met
\* when it holds and Waiting when it does not.
C19_DirectionalPredicate ==
    [][lastOp' = "evaluate" /\ ret'.kind # "Err(MissingData)" =>
         LET self == condition.value
             download == data'.download_bps.value.value
             upload == data'.upload_bps.value.value
             threshold == self.threshold_bytes_per_sec
             holds == CASE self.monitor_mode = "DownloadOnly" -> download < threshold
                        [] self.monitor_mode = "UploadOnly" -> upload < threshold
                        [] self.monitor_mode = "Both" ->
                             download < threshold /\ upload < threshold
         IN /\ is_below_threshold(self, data') = OkValue(holds)
            /\ holds => ret'.kind \in {"Ok(InProgress)", "Ok(Met)"}
            /\ ~holds => ret' = Waiting]_vars

\* In Both mode, with download below the threshold and upload equal to it,
\* evaluate() has returned Waiting.
C19_Witness ==
    /\ lastOp = "evaluate"
    /\ ret = Waiting
    /\ condition.value.monitor_mode = "Both"
    /\ data.download_bps = Some(U64(0))
    /\ data.upload_bps = Some(U64(condition.value.threshold_bytes_per_sec))
    /\ condition.value.threshold_bytes_per_sec > 0

\* C20: a below-threshold evaluate() latches below_since at its own time when
\* none is latched and never moves a latched one; it returns Met iff the whole
\* seconds from below_since to now reach required_duration_secs and
\* InProgress with those seconds otherwise. A Waiting result and reset() clear
\* the latch, so a below-threshold call right after a Met one returns Met again.
C20_LatchAndDuration ==
    [][/\ lastOp' = "evaluate" /\ ret'.kind \in {"Ok(InProgress)", "Ok(Met)"} =>
            LET self == condition.value
                since == IF self.below_since = None THEN now'
                         ELSE self.below_since.value
                elapsed == (now' - since) \div UnitsPerSec
            IN /\ condition'.value.below_since = Some(since)
               /\ ret' = Met <=> elapsed >= self.required_duration_secs
               /\ ret' # Met => ret' = InProgress(elapsed)
               /\ lastOp = "evaluate" /\ ret = Met => ret' = Met
               /\ lastOp = "evaluate" /\ ret.kind \in {"Ok(InProgress)", "Ok(Met)"} =>
                    self.below_since # None
       /\ lastOp' = "evaluate" /\ ret' = Waiting => condition'.value.below_since = None
       /\ lastOp' = "condition_reset" => condition'.value.below_since = None]_vars

\* Met has been returned, for a required duration of at least a second, by a
\* call later than the one that latched below_since.
C20_Witness ==
    /\ lastOp = "evaluate"
    /\ ret = Met
    /\ condition.value.required_duration_secs >= 1
    /\ condition.value.below_since # None
    /\ condition.value.below_since.value < now

\* C21: an evaluate() on which the predicate does not hold returns Waiting and
\* clears below_since, as reset() does, whatever streak was latched; an
\* evaluate() that fails leaves the condition as it was; and a below-threshold
\* evaluate() that finds no latch starts a new streak at its own time and
\* reports 0 elapsed seconds (Met when no duration is required).
C21_SpikeDiscardsProgress ==
    [][/\ lastOp' = "evaluate" /\ is_below_threshold(condition.value, data') = OkValue(FALSE) =>
            ret' = Waiting /\ condition'.value.below_since = None
       /\ lastOp' = "condition_reset" => condition'.value.below_since = None
       /\ lastOp' = "evaluate" /\ ret'.kind = "Err(MissingData)" => condition' = condition
       /\ /\ lastOp' = "evaluate"
          /\ is_below_threshold(condition.value, data') = OkValue(TRUE)
          /\ condition.value.below_since = None
          => /\ condition'.value.below_since = Some(now')
             /\ ret' = IF condition.value.required_duration_secs = 0
                       THEN Met ELSE InProgress(0)]_vars

\* A spike has discarded a streak that had lasted the required duration of at
\* least one second.
C21_Witness ==
    /\ lastOp = "evaluate"
    /\ ret = Waiting
    /\ condition.value.below_since = None
    /\ condition.value.required_duration_secs >= 1
    /\ latched # None
    /\ as_secs(now - latched.value) >= condition.value.required_duration_secs

\* C22 (as stated): from one InProgress result to the next, with nothing but
\* below-threshold evaluate() calls, elapsed_secs strictly increases.
C22_ElapsedStrictlyIncreases ==
    [][/\ lastOp = "evaluate" /\ ret.kind = "Ok(InProgress)"
       /\ lastOp' = "evaluate" /\ ret'.kind = "Ok(InProgress)"
       => ret'.elapsed_secs > ret.elapsed_secs]_vars

\* C22: from one InProgress result to the next, with nothing but
\* below-threshold evaluate() calls, elapsed_secs never decreases, and it
\* increases when the two calls are at least one second apart.
C22_ElapsedNeverDecreases ==
    [][/\ lastOp = "evaluate" /\ ret.kind = "Ok(InProgress)"
       /\ lastOp' = "evaluate" /\ ret'.kind = "Ok(InProgress)"
       => /\ ret'.elapsed_secs >= ret.elapsed_secs
          /\ now' - now >= UnitsPerSec => ret'.elapsed_secs > ret.elapsed_secs]_vars

\* InProgress has been returned with a whole second elapsed, by a call later
\* than the one that latched below_since and found the latch set.
C22_Witness ==
    /\ lastOp = "evaluate"
    /\ ret = InProgress(1)
    /\ latched # None
    /\ latched = condition.value.below_since

-----------------------------------------------------------------------------
(* Overflow of the rolling averages, checked under SpeedSpec *)

\* C30: the current speeds never panic or wrap: for any history they are
\* floor(S / count) with S the mathematical sum of the readings.
C30_MeanOfTrueSum ==
    monitor # None =>
        LET history == monitor.value.history IN
        /\ Panic \notin current_download_speed(monitor.value)
                            \cup current_upload_speed(monitor.value)
        /\ \A d \in current_download_speed(monitor.value) :
              d = U64(Mean(Column(history, "download_bps")))
        /\ \A u \in current_upload_speed(monitor.value) :
              u = U64(Mean(Column(history, "upload_bps")))

-----------------------------------------------------------------------------
(* ProcessTrigger *)

\* Most processes in a list given to evaluate_with_processes().
MaxProcs == 2

\* A String is the sequence of its characters.
lower(c) == CASE c = "A" -> "a" [] c = "B" -> "b" [] OTHER -> c
to_lowercase(name) == [i \in 1..Len(name) |-> lower(name[i])]

\* TriggerData::new, insert and get: a bag is a function on its keys.
TriggerData_new == [k \in {} |-> None]
insert(d, key, value) ==
    [k \in DOMAIN d \cup {key} |-> IF k = key THEN value ELSE d[k]]
get(d, key) == IF key \in DOMAIN d THEN Some(d[key]) ELSE None

Idle == [kind |-> "Ok(Idle)"]
Active(d) == [kind |-> "Ok(Active)", data |-> d]
Triggered == [kind |-> "Ok(Triggered)"]

\* The fields of ProcessInfo the trigger reads.
ProcessInfo(name, bytes) == [name |-> name, estimated_network_bytes |-> bytes]

ProcessTrigger_new(watched_names, excluded_names, threshold_bytes) ==
    [watched_names |-> {to_lowercase(watched_names[i]) : i \in DOMAIN watched_names},
     excluded_names |-> {to_lowercase(excluded_names[i]) : i \in DOMAIN excluded_names},
     threshold_bytes |-> threshold_bytes,
     started |-> FALSE]

Kept(self, p) ==
    LET name == to_lowercase(p.name) IN
    name \in self.watched_names /\ name \notin self.excluded_names

\* Mutant: the excluded names are not consulted.
filter_processes_watched(self, ps) ==
    SelectSeq(ps, LAMBDA p : to_lowercase(p.name) \in self.watched_names)

filter_processes(self, ps) == SelectSeq(ps, LAMBDA p : Kept(self, p))

all_below_threshold(self, filtered) ==
    IF filtered = <<>> THEN TRUE
    ELSE \A i \in DOMAIN filtered :
            filtered[i].estimated_network_bytes < self.threshold_bytes

\* Mutant: the Active bag carries no upload_bps.
evaluate_with_processes_download(self, ps) ==
    LET filtered == filter_processes(self, ps)
        activity == [i \in DOMAIN filtered |-> filtered[i].estimated_network_bytes]
    IN {IF total_activity = Panic THEN Panic
        ELSE IF all_below_threshold(self, filtered)
        THEN Active(insert(insert(TriggerData_new,
                                  "watched_count", U64(Len(filtered))),
                           "download_bps", total_activity))
        ELSE Idle :
          total_activity \in sum_u64(activity)}

\* The outcomes of evaluate_with_processes(): one for each outcome of the sum.
evaluate_with_processes(self, ps) ==
    LET filtered == filter_processes(self, ps)
        activity == [i \in DOMAIN filtered |-> filtered[i].estimated_network_bytes]
        active_count ==
            Cardinality({i \in DOMAIN filtered :
                            filtered[i].estimated_network_bytes >= self.threshold_bytes})
        counted(total_activity) ==
            insert(insert(insert(TriggerData_new,
                                 "watched_count", U64(Len(filtered))),
                          "active_count", U64(active_count)),
                   "total_activity_bytes", total_activity)
    IN {IF total_activity = Panic THEN Panic
        ELSE IF all_below_threshold(self, filtered)
        THEN Active(insert(insert(counted(total_activity),
                                  "download_bps", total_activity),
                           "upload_bps", U64(0)))
        ELSE Idle :
          total_activity \in sum_u64(activity)}

ProcessTrigger_start(self) == [self |-> [self EXCEPT !.started = TRUE], ret |-> Ok]
ProcessTrigger_stop(self) == [self |-> [self EXCEPT !.started = FALSE], ret |-> Ok]
ProcessTrigger_evaluate(self) ==
    IF ~self.started THEN [self |-> self, ret |-> Idle]
    ELSE [self |-> self, ret |-> Idle]

\* Names given to ProcessTrigger::new and activity thresholds.
WatchedSamples == {<<>>, << <<"A">> >>, << <<"A">>, <<"b">> >>}
ExcludedSamples == {<<>>, << <<"a">> >>, << <<"B">> >>}
ThresholdSamples == {0, 2^(WordBits - 1), U64Max}

\* Running processes.
ProcessSamples ==
    {ProcessInfo(<<"a">>, 0), ProcessInfo(<<"A">>, 2^(WordBits - 1)),
     ProcessInfo(<<"b">>, U64Max), ProcessInfo(<<"c">>, U64Max)}
ProcessLists == UNION {[1..n -> ProcessSamples] : n \in 0..MaxProcs}

TriggerInit ==
    /\ scheduler = new(60, 30)
    /\ lastOp = "new"
    /\ ret = Unit
    /\ cycles = 0
    /\ ticks = -1
    /\ emitted = 0
    /\ event_ids = <<>>
    /\ delivered = 0
    /\ monitor = None
    /\ recent = <<>>
    /\ sampled = None
    /\ condition = None
    /\ latched = None
    /\ data = [download_bps |-> None, upload_bps |-> None]
    /\ now = 0
    /\ \E watched \in WatchedSamples, excluded \in ExcludedSamples,
          threshold \in ThresholdSamples :
         trigger = Some(ProcessTrigger_new(watched, excluded, threshold))
    /\ processes = <<>>
    /\ AppIdle

Start ==
    /\ trigger # None
    /\ trigger' = Some(ProcessTrigger_start(trigger.value).self)
    /\ lastOp' = "start"
    /\ ret' = ProcessTrigger_start(trigger.value).ret
    /\ UNCHANGED <<processes, exceptTrigger>>

Stop ==
    /\ trigger # None
    /\ trigger' = Some(ProcessTrigger_stop(trigger.value).self)
    /\ lastOp' = "stop"
    /\ ret' = ProcessTrigger_stop(trigger.value).ret
    /\ UNCHANGED <<processes, exceptTrigger>>

TriggerEvaluate ==
    /\ trigger # None
    /\ trigger' = Some(ProcessTrigger_evaluate(trigger.value).self)
    /\ lastOp' = "trigger_evaluate"
    /\ ret' = ProcessTrigger_evaluate(trigger.value).ret
    /\ UNCHANGED <<processes, exceptTrigger>>

EvaluateWithProcesses ==
    /\ trigger # None
    /\ \E ps \in ProcessLists :
         /\ processes' = ps
         /\ ret' \in evaluate_with_processes(trigger.value, ps)
    /\ lastOp' = "evaluate_with_processes"
    /\ UNCHANGED <<trigger, exceptTrigger>>

TriggerNext ==
    \/ Start
    \/ Stop
    \/ TriggerEvaluate
    \/ EvaluateWithProcesses

TriggerSpec == TriggerInit /\ [][TriggerNext]_vars

-----------------------------------------------------------------------------
(* Properties of the process trigger, checked under TriggerSpec *)

upper(c) == CASE c = "a" -> "A" [] c = "b" -> "B" [] OTHER -> c

\* Two names are equal but for the case of their letters.
EqIgnoreCase(s, t) ==
    Len(s) = Len(t) /\ \A i \in 1..Len(s) : upper(s[i]) = upper(t[i])

NameIn(name, names) == \E n \in names : EqIgnoreCase(name, n)

\* The samples whose name is watched and not excluded, in the order given.
WatchedNotExcluded(self, ps) ==
    SelectSeq(ps, LAMBDA p : /\ NameIn(p.name, self.watched_names)
                             /\ ~NameIn(p.name, self.excluded_names))

\* C23: the trigger evaluates exactly the samples whose name is, ignoring
\* case, watched and not excluded: filter_processes() selects them, and the
\* outcomes for a list are the outcomes for those samples alone.
C23_WatchedNotExcluded ==
    [][lastOp' = "evaluate_with_processes" =>
         LET self == trigger.value
             chosen == WatchedNotExcluded(self, processes')
         IN /\ filter_processes(self, processes') = chosen
            /\ evaluate_with_processes(self, processes') =
                   evaluate_with_processes(self, chosen)
            /\ ret' \in evaluate_with_processes(self, chosen)]_vars

\* Active has been returned for one watched sample named in upper case, with
\* a watched but excluded sample of the greatest activity in the list.
C23_Witness ==
    /\ lastOp = "evaluate_with_processes"
    /\ ret.kind = "Ok(Active)"
    /\ ret.data["watched_count"] = U64(1)
    /\ trigger.value.watched_names = {<<"a">>, <<"b">>}
    /\ trigger.value.excluded_names = {<<"b">>}
    /\ \E i, j \in DOMAIN processes :
          /\ processes[i].name = <<"A">>
          /\ processes[j] = ProcessInfo(<<"b">>, U64Max)

\* Every sample evaluated is below the threshold (none is evaluated included).
AllQuiet(self, ps) ==
    \A i \in DOMAIN WatchedNotExcluded(self, ps) :
       WatchedNotExcluded(self, ps)[i].estimated_network_bytes < self.threshold_bytes

\* C24: evaluate_with_processes() returns Active iff no evaluated sample has
\* activity at or above threshold_bytes (none evaluated included), Idle iff
\* one has, and never Triggered.
C24_ActiveIffAllQuiet ==
    [][lastOp' = "evaluate_with_processes" =>
         /\ ret'.kind = "Ok(Active)" <=> AllQuiet(trigger.value, processes')
         /\ ret' = Idle <=> ~AllQuiet(trigger.value, processes')
         /\ ret' # Triggered]_vars

RECURSIVE Activity(_)
\* The mathematical sum of the activities of a list of samples.
Activity(ps) ==
    IF ps = <<>> THEN 0
    ELSE ps[1].estimated_network_bytes + Activity(Tail(ps))

\* C25: the bag of an Active result holds watched_count = the number of
\* evaluated samples, active_count = the number of them at or above the
\* threshold, download_bps = the sum of their activities and upload_bps = 0,
\* all as U64 values.
C25_ActiveBag ==
    [][lastOp' = "evaluate_with_processes" /\ ret'.kind = "Ok(Active)" =>
         LET self == trigger.value
             chosen == WatchedNotExcluded(self, processes')
             busy == {i \in DOMAIN chosen :
                        chosen[i].estimated_network_bytes >= self.threshold_bytes}
         IN /\ get(ret'.data, "watched_count") = Some(U64(Len(chosen)))
            /\ get(ret'.data, "active_count") = Some(U64(Cardinality(busy)))
            /\ get(ret'.data, "download_bps") = Some(U64(Activity(chosen)))
            /\ get(ret'.data, "upload_bps") = Some(U64(0))]_vars

\* What a ThresholdCondition reads from a bag.
Lookup(bag) ==
    [download_bps |-> get(bag, "download_bps"), upload_bps |-> get(bag, "upload_bps")]

\* New conditions of every mode.
AnyCondition ==
    {ThresholdCondition_new(threshold, 0, mode) :
        threshold \in ThresholdSamples, mode \in MonitorMode}

\* C26: the bag of every Active result of the process trigger is evaluated by
\* a ThresholdCondition of any mode without a missing-metric error.
C26_ActiveBagFeedsCondition ==
    [][lastOp' = "evaluate_with_processes" /\ ret'.kind = "Ok(Active)" =>
         \A c \in AnyCondition :
            evaluate(c, Lookup(ret'.data), now').ret.kind
                \in {"Ok(Waiting)", "Ok(InProgress)", "Ok(Met)"}]_vars

\* An Active result carries a download_bps that a DownloadOnly condition with
\* a threshold above it and no required duration evaluates to Met.
C26_Witness ==
    /\ lastOp = "evaluate_with_processes"
    /\ ret.kind = "Ok(Active)"
    /\ ret.data["download_bps"].value > 0
    /\ evaluate(ThresholdCondition_new(U64Max, 0, "DownloadOnly"),
                Lookup(ret.data), now).ret = Met

\* C27: start() and stop() always succeed, set the started flag and change
\* nothing else, so a second call changes nothing; evaluate() returns Ok(Idle)
\* (on a trigger that is not started in particular); and
\* evaluate_with_processes() returns Ok(Idle) whenever an evaluated sample
\* reaches the threshold.
C27_TogglesAndIdle ==
    [][/\ lastOp' = "start" =>
            /\ ret' = Ok
            /\ trigger' = Some([trigger.value EXCEPT !.started = TRUE])
            /\ ProcessTrigger_start(trigger'.value).self = trigger'.value
       /\ lastOp' = "stop" =>
            /\ ret' = Ok
            /\ trigger' = Some([trigger.value EXCEPT !.started = FALSE])
            /\ ProcessTrigger_stop(trigger'.value).self = trigger'.value
       /\ lastOp' = "trigger_evaluate" => ret' = Idle /\ trigger' = trigger
       /\ (lastOp' = "evaluate_with_processes" /\ ~AllQuiet(trigger.value, processes'))
            => ret' = Idle]_vars

-----------------------------------------------------------------------------
(* ActivityLogger *)

\* const MAX_ENTRIES: usize
MAX_ENTRIES == 1000

\* The greatest number of add_entry() calls made beyond a full logger.
MaxOver == 2

\* The n-th entry handed to add_entry(); its other fields are not looked at.
LogEntry(n) == [trigger_reason |-> n]

\* Mutant: eviction starts one entry late.
add_entry_evict_late(self, entry) ==
    [entries |-> Append(IF Len(self.entries) > MAX_ENTRIES
                        THEN Tail(self.entries) ELSE self.entries, entry)]

\* Vec::remove(0) drops the first element and shifts the others down.
add_entry(self, entry) ==
    [entries |-> Append(IF Len(self.entries) >= MAX_ENTRIES
                        THEN Tail(self.entries) ELSE self.entries, entry)]

get_all(self) == self.entries

len(self) == Len(self.entries)

clear(self) == [entries |-> <<>>]

Slice(entries) == [kind |-> "&[LogEntry]", entries |-> entries]

LoggerInit ==
    /\ scheduler = new(60, 30)
    /\ lastOp = "new"
    /\ ret = Unit
    /\ cycles = 0
    /\ ticks = -1
    /\ emitted = 0
    /\ event_ids = <<>>
    /\ delivered = 0
    /\ monitor = None
    /\ recent = <<>>
    /\ sampled = None
    /\ condition = None
    /\ latched = None
    /\ data = [download_bps |-> None, upload_bps |-> None]
    /\ now = 0
    /\ trigger = None
    /\ processes = <<>>
    /\ AppIdle

AddEntry ==
    /\ added < MAX_ENTRIES + MaxOver
    /\ logger' = add_entry(logger, LogEntry(added + 1))
    /\ added' = added + 1
    /\ lastOp' = "add_entry"
    /\ ret' = Unit
    /\ UNCHANGED exceptLogger

Clear ==
    /\ logger' = clear(logger)
    /\ added' = 0
    /\ lastOp' = "clear"
    /\ ret' = Unit
    /\ UNCHANGED exceptLogger

GetAll ==
    /\ lastOp' = "get_all"
    /\ ret' = Slice(get_all(logger))
    /\ UNCHANGED <<loggerVars, exceptLogger>>

LoggerNext ==
    \/ AddEntry
    \/ Clear
    \/ GetAll

LoggerSpec == LoggerInit /\ [][LoggerNext]_vars

-----------------------------------------------------------------------------
(* Properties of the activity logger *)

\* The n most recent of the entries added since new() or clear(), oldest first.
MostRecent(n) == [i \in 1..n |-> LogEntry(added - n + i)]

\* C29: after any sequence of add_entry() and clear() calls the logger holds
\* at most MAX_ENTRIES entries and get_all() is the most recent
\* min(n, MAX_ENTRIES) of the n entries added since the logger was new or
\* cleared, in insertion order; add_entry() on a full logger drops exactly the
\* oldest entry and puts the new one last.
C29_BoundedFifo ==
    /\ [](/\ len(logger) <= MAX_ENTRIES
          /\ get_all(logger) =
                MostRecent(IF added < MAX_ENTRIES THEN added ELSE MAX_ENTRIES)
          /\ lastOp = "get_all" => ret = Slice(get_all(logger)))
    /\ [][(lastOp' = "add_entry" /\ len(logger) = MAX_ENTRIES)
            => get_all(logger') = Append(Tail(get_all(logger)), LogEntry(added'))]_vars

\* A full logger has been added to: its oldest entry is gone, the second
\* oldest is first and the new entry is last.
C29_Witness ==
    /\ lastOp = "add_entry"
    /\ added = MAX_ENTRIES + 1
    /\ len(logger) = MAX_ENTRIES
    /\ get_all(logger)[1] = LogEntry(2)
    /\ get_all(logger)[MAX_ENTRIES] = LogEntry(MAX_ENTRIES + 1)

-----------------------------------------------------------------------------
(* The command handlers *)

\* The greatest number of commands the frontend invokes.
MaxCalls == 3

Commands ==
    {"get_current_speed", "start_monitoring", "stop_monitoring", "pause_monitoring",
     "resume_monitoring", "cancel_action", "execute_action_now", "trigger_countdown"}

\* TriggerConfig; the process lists of ProcessIdle are not read by the handlers.
NetworkIdle(interface_id) == [type |-> "network_idle", interface_id |-> interface_id]
ProcessIdle == [type |-> "process_idle"]

ConditionConfig(threshold_bytes_per_sec, required_duration_secs, monitor_mode) ==
    [threshold_bytes_per_sec |-> threshold_bytes_per_sec,
     required_duration_secs |-> required_duration_secs,
     monitor_mode |-> monitor_mode]

MonitoringConfig(trigger_type, cond, pre_warning_secs, countdown_secs) ==
    [trigger_type |-> trigger_type,
     condition |-> cond,
     pre_warning_secs |-> pre_warning_secs,
     countdown_secs |-> countdown_secs]

\* The configurations start_monitoring is given.
ConfigSamples ==
    {MonitoringConfig(NetworkIdle("auto"), ConditionConfig(0, 0, "download_only"), 0, 0),
     MonitoringConfig(NetworkIdle("wlan0"), ConditionConfig(MaxBps, MaxSecs, "both"),
                      MaxSecs, 0),
     MonitoringConfig(ProcessIdle, ConditionConfig(MaxBps, 0, "upload_only"), 0, MaxSecs)}

\* match config.condition.monitor_mode.as_str()
monitor_mode_of(s) ==
    CASE s = "upload_only" -> "UploadOnly"
      [] s = "both" -> "Both"
      [] OTHER -> "DownloadOnly"

\* A handler suspended in lock().await, or between two of them.
Awaiting == [kind |-> "Poll::Pending"]

\* Some handler holds the guard of this mutex.
Locked(mutex) == \E u \in TaskIds : tasks[u] # NoTask /\ mutex \in tasks[u].guards

\* The handler of task t is about to lock this mutex, and the mutex is free.
At(t, cmd, mutex) ==
    /\ tasks[t].cmd = cmd
    /\ tasks[t].pc = mutex
    /\ ~Locked(mutex)

\* The handler goes on to its next lock().await holding these guards.
Await(t, mutex, guards) ==
    /\ tasks' = [tasks EXCEPT ![t].pc = mutex, ![t].guards = guards]
    /\ lastOp' = "await"
    /\ ret' = Awaiting

\* The handler returns and drops its guards.
Return(t, r) ==
    /\ tasks' = [tasks EXCEPT ![t] = NoTask]
    /\ lastOp' = tasks[t].cmd
    /\ ret' = r

\* The first mutex a handler locks.
FirstLock(cmd, c) ==
    CASE cmd = "get_current_speed" -> "speed_monitor"
      [] cmd = "start_monitoring" ->
            IF c.trigger_type.type = "network_idle" /\ c.trigger_type.interface_id # "auto"
            THEN "speed_monitor" ELSE "network_provider"
      [] cmd = "stop_monitoring" -> "speed_monitor"
      [] cmd \in {"pause_monitoring", "resume_monitoring"} -> "status"
      [] OTHER -> "scheduler"

\* The frontend invokes a command; its handler starts as a task of its own.
Invoke(t) ==
    /\ tasks[t] = NoTask
    /\ calls < MaxCalls
    /\ \E cmd \in Commands :
         \E c \in IF cmd = "start_monitoring" THEN ConfigSamples ELSE {None} :
            tasks' = [tasks EXCEPT ![t] =
                        [cmd |-> cmd, pc |-> FirstLock(cmd, c), guards |-> {},
                         config |-> c,
                         interface_id |->
                            IF cmd = "start_monitoring" /\ c.trigger_type.type = "network_idle"
                            THEN c.trigger_type.interface_id ELSE "auto"]]
    /\ calls' = calls + 1
    /\ lastOp' = "invoke"
    /\ ret' = Awaiting
    /\ UNCHANGED <<schedulerVars, speedVars, conditionVars, now, triggerVars,
                   status, config, loggerVars>>

\* A scheduler method has been called on the locked scheduler.
SchedulerCalled(r) ==
    /\ scheduler' = r.self
    /\ event_ids' = Pushed(scheduler.events, r.self.events)
    /\ emitted' = emitted + (Len(r.self.events) - Len(scheduler.events))
    /\ UNCHANGED delivered

GetCurrentSpeedHandler(t) ==
    \/ /\ At(t, "get_current_speed", "speed_monitor")
       /\ Await(t, "network_provider", {"speed_monitor"})
       /\ UNCHANGED <<schedulerVars, speedVars, conditionVars, now, triggerVars,
                      status, config, calls, loggerVars>>
    \/ /\ At(t, "get_current_speed", "network_provider")
       /\ \E tm \in now..MaxTime :
            \E default \in IF monitor = None THEN DefaultInterfaceResults ELSE {None},
               source \in SourceResults(tm) :
               \E o \in get_current_speed(monitor, default, source) :
                  /\ now' = tm
                  /\ monitor' = o.monitor
                  /\ Return(t, o.reply)
                  /\ recent' = IF o.monitor = None THEN recent
                               ELSE Produced(o.polled, o.monitor.value.window_size)
                  /\ sampled' = IF o.monitor = None THEN sampled ELSE source
       /\ UNCHANGED <<schedulerVars, conditionVars, triggerVars,
                      status, config, calls, loggerVars>>

\* Mutant: the network_provider guard outlives the match on the trigger type.
InterfaceChosenHoldingProvider(t, interface_id) ==
    /\ tasks' = [tasks EXCEPT ![t].pc = "speed_monitor",
                              ![t].guards = {"network_provider"},
                              ![t].interface_id = interface_id]
    /\ lastOp' = "await"
    /\ ret' = Awaiting

\* start_monitoring has its interface: the network_provider guard is dropped
\* at the end of the match arm, before speed_monitor is locked.
InterfaceChosen(t, interface_id) ==
    /\ tasks' = [tasks EXCEPT ![t].pc = "speed_monitor",
                              ![t].guards = {},
                              ![t].interface_id = interface_id]
    /\ lastOp' = "await"
    /\ ret' = Awaiting

StartMonitoring(t) ==
    LET c == tasks[t].config IN
    \/ /\ At(t, "start_monitoring", "network_provider")
       /\ \E default \in DefaultInterfaceResults :
            IF default.kind # "Ok"
               \/ (c.trigger_type.type = "network_idle" /\ default.iface = None)
            THEN Return(t, ErrString)
            ELSE InterfaceChosen(t, IF default.iface = None THEN "unknown"
                                    ELSE default.iface.value)
       /\ UNCHANGED <<schedulerVars, speedVars, conditionVars, now, triggerVars,
                      status, config, calls, loggerVars>>
    \/ /\ At(t, "start_monitoring", "speed_monitor")
       /\ monitor' = Some(SpeedMonitor_new(tasks[t].interface_id, DefaultWindow))
       /\ recent' = <<>>
       /\ Await(t, "threshold_condition", {})
       /\ UNCHANGED <<schedulerVars, sampled, conditionVars, now, triggerVars,
                      status, config, calls, loggerVars>>
    \/ /\ At(t, "start_monitoring", "threshold_condition")
       /\ condition' = Some(ThresholdCondition_new(
                                c.condition.threshold_bytes_per_sec,
                                c.condition.required_duration_secs,
                                monitor_mode_of(c.condition.monitor_mode)))
       /\ Await(t, "scheduler", {})
       /\ UNCHANGED <<schedulerVars, speedVars, latched, data, now, triggerVars,
                      status, config, calls, loggerVars>>
    \/ /\ At(t, "start_monitoring", "scheduler")
       /\ scheduler' = new(c.pre_warning_secs, c.countdown_secs)
       /\ event_ids' = <<>>
       /\ ticks' = -1
       /\ Await(t, "status", {"scheduler"})
       /\ UNCHANGED <<cycles, emitted, delivered, speedVars, conditionVars, now,
                      triggerVars, status, config, calls, loggerVars>>
    \/ /\ At(t, "start_monitoring", "status")
       /\ status' = "Monitoring"
       /\ Await(t, "config", {"scheduler"})
       /\ UNCHANGED <<schedulerVars, speedVars, conditionVars, now, triggerVars,
                      config, calls, loggerVars>>
    \/ /\ At(t, "start_monitoring", "config")
       /\ config' = Some(c)
       /\ Return(t, Ok)
       /\ UNCHANGED <<schedulerVars, speedVars, conditionVars, now, triggerVars,
                      status, calls, loggerVars>>

StopMonitoring(t) ==
    \/ /\ At(t, "stop_monitoring", "speed_monitor")
       /\ monitor' = None
       /\ recent' = <<>>
       /\ Await(t, "threshold_condition", {})
       /\ UNCHANGED <<schedulerVars, sampled, conditionVars, now, triggerVars,
                      status, config, calls, loggerVars>>
    \/ /\ At(t, "stop_monitoring", "threshold_condition")
       /\ condition' = None
       /\ Await(t, "scheduler", {})
       /\ UNCHANGED <<schedulerVars, speedVars, latched, data, now, triggerVars,
                      status, config, calls, loggerVars>>
    \/ /\ At(t, "stop_monitoring", "scheduler")
       /\ scheduler' = reset(scheduler)
       /\ event_ids' = <<>>
       /\ ticks' = -1
       /\ Await(t, "status", {})
       /\ UNCHANGED <<cycles, emitted, delivered, speedVars, conditionVars, now,
                      triggerVars, status, config, calls, loggerVars>>
    \/ /\ At(t, "stop_monitoring", "status")
       /\ status' = "Idle"
       /\ Await(t, "config", {})
       /\ UNCHANGED <<schedulerVars, speedVars, conditionVars, now, triggerVars,
                      config, calls, loggerVars>>
    \/ /\ At(t, "stop_monitoring", "config")
       /\ config' = None
       /\ Return(t, Ok)
       /\ UNCHANGED <<schedulerVars, speedVars, conditionVars, now, triggerVars,
                      status, calls, loggerVars>>

\* Mutant: pause_monitoring pauses whatever the status is.
PauseMonitoringAlways(t) ==
    /\ At(t, "pause_monitoring", "status")
    /\ status' = "Paused"
    /\ Return(t, Ok)
    /\ UNCHANGED <<schedulerVars, speedVars, conditionVars, now, triggerVars,
                   config, calls, loggerVars>>

PauseMonitoring(t) ==
    /\ At(t, "pause_monitoring", "status")
    /\ IF status = "Monitoring"
       THEN status' = "Paused" /\ Return(t, Ok)
       ELSE UNCHANGED status /\ Return(t, ErrString)
    /\ UNCHANGED <<schedulerVars, speedVars, conditionVars, now, triggerVars,
                   config, calls, loggerVars>>

ResumeMonitoring(t) ==
    /\ At(t, "resume_monitoring", "status")
    /\ IF status = "Paused"
       THEN status' = "Monitoring" /\ Return(t, Ok)
       ELSE UNCHANGED status /\ Return(t, ErrString)
    /\ UNCHANGED <<schedulerVars, speedVars, conditionVars, now, triggerVars,
                   config, calls, loggerVars>>

CancelAction(t) ==
    \/ /\ At(t, "cancel_action", "scheduler")
       /\ LET r == cancel(scheduler) IN
          /\ SchedulerCalled(r)
          /\ IF r.ret = Ok THEN Await(t, "status", {}) ELSE Return(t, ErrString)
       /\ ticks' = -1
       /\ UNCHANGED <<cycles, speedVars, conditionVars, now, triggerVars,
                      status, config, calls, loggerVars>>
    \/ /\ At(t, "cancel_action", "status")
       /\ status' = "Monitoring"
       /\ Return(t, Ok)
       /\ UNCHANGED <<schedulerVars, speedVars, conditionVars, now, triggerVars,
                      config, calls, loggerVars>>

ExecuteActionNow(t) ==
    \/ /\ At(t, "execute_action_now", "scheduler")
       /\ LET r == execute_now(scheduler) IN
          /\ SchedulerCalled(r)
          /\ IF r.ret = OkTrue THEN Await(t, "status", {}) ELSE Return(t, ErrString)
       /\ ticks' = -1
       /\ UNCHANGED <<cycles, speedVars, conditionVars, now, triggerVars,
                      status, config, calls, loggerVars>>
    \/ /\ At(t, "execute_action_now", "status")
       /\ status' = "Executed"
       /\ Return(t, Ok)
       /\ UNCHANGED <<schedulerVars, speedVars, conditionVars, now, triggerVars,
                      config, calls, loggerVars>>

TriggerCountdown(t) ==
    \/ /\ At(t, "trigger_countdown", "scheduler")
       /\ LET r == schedule(scheduler) IN
          /\ SchedulerCalled(r)
          /\ cycles' = IF r.ret = Ok THEN cycles + 1 ELSE cycles
          /\ ticks' = IF r.ret = Ok THEN 0 ELSE ticks
          /\ IF r.ret = Ok THEN Await(t, "status", {"scheduler"})
             ELSE Return(t, ErrString)
       /\ UNCHANGED <<speedVars, conditionVars, now, triggerVars,
                      status, config, calls, loggerVars>>
    \/ /\ At(t, "trigger_countdown", "status")
       /\ status' = "TriggerPending"
       /\ Return(t, Ok)
       /\ UNCHANGED <<schedulerVars, speedVars, conditionVars, now, triggerVars,
                      config, calls, loggerVars>>

AppInit ==
    /\ scheduler = new(60, 30)
    /\ lastOp = "new"
    /\ ret = Unit
    /\ cycles = 0
    /\ ticks = -1
    /\ emitted = 0
    /\ event_ids = <<>>
    /\ delivered = 0
    /\ monitor = None
    /\ recent = <<>>
    /\ sampled = None
    /\ condition = None
    /\ latched = None
    /\ data = [download_bps |-> None, upload_bps |-> None]
    /\ now = 0
    /\ trigger = None
    /\ processes = <<>>
    /\ AppIdle

\* The handler of task t runs up to its next lock().await or to its return.
HandlerStep(t) ==
    \/ GetCurrentSpeedHandler(t)
    \/ StartMonitoring(t)
    \/ StopMonitoring(t)
    \/ PauseMonitoring(t)
    \/ ResumeMonitoring(t)
    \/ CancelAction(t)
    \/ ExecuteActionNow(t)
    \/ TriggerCountdown(t)

AppNext == \E t \in TaskIds : Invoke(t) \/ HandlerStep(t)

AppSpec == AppInit /\ [][AppNext]_vars

\* The async runtime polls every task that can make progress, and a tokio
\* mutex is granted in the order it was asked for: a handler whose next step
\* stays possible takes it.
AppFairSpec == AppSpec /\ \A t \in TaskIds : WF_vars(HandlerStep(t))

-----------------------------------------------------------------------------
(* Properties of the command handlers *)

\* The handler of this command returns in this step.
Completes(cmd) == \E t \in TaskIds : tasks[t].cmd = cmd /\ tasks'[t] = NoTask

\* C28: when stop_monitoring returns, or start_monitoring returns Ok, the
\* scheduler is Idle with an empty event queue, whatever it was before; when
\* stop_monitoring returns, moreover, speed monitor, threshold condition and
\* config are absent and the status is Idle.
C28_SessionBoundaryResetsScheduler ==
    [][/\ (Completes("stop_monitoring") \/ (Completes("start_monitoring") /\ ret' = Ok))
            => (scheduler'.state = "Idle" /\ scheduler'.events = <<>>)
       /\ Completes("stop_monitoring")
            => /\ monitor' = None
               /\ condition' = None
               /\ config' = None
               /\ status' = "Idle"]_vars

-----------------------------------------------------------------------------
(* Cancellation, failed calls and idle ticks, checked under Spec *)

\* C31: a successful cancel() leaves the state Cancelled; from Cancelled, and
\* from the Idle a reset() makes of it, no call returns true and the state
\* does not become Executed, and the state is left only by a successful
\* schedule(); a tick() in Cancelled returns false and changes nothing, so
\* the aborted countdown is not continued.
C31_CancelIsEffective ==
    [][/\ (lastOp' = "cancel" /\ ret' = Ok) => scheduler'.state = "Cancelled"
       /\ scheduler.state \in {"Cancelled", "Idle"} =>
            /\ ret' # OkTrue
            /\ scheduler'.state # "Executed"
            /\ \/ scheduler'.state \in {"Cancelled", "Idle"}
               \/ lastOp' = "schedule" /\ ret' = Ok
       /\ (scheduler.state = "Cancelled" /\ lastOp' = "tick") =>
            /\ ret' = OkFalse
            /\ scheduler' = scheduler]_vars

\* A countdown with one second remaining was cancelled and a tick() has
\* followed: the state is still Cancelled and Cancelled is the last event.
C31_Witness ==
    /\ lastOp = "tick"
    /\ ret = OkFalse
    /\ scheduler.state = "Cancelled"
    /\ Len(scheduler.events) >= 2
    /\ LastEvent = Cancelled
    /\ scheduler.events[Len(scheduler.events) - 1] = CountdownTick(1)

\* C33: a schedule(), cancel() or execute_now() that fails with InvalidState
\* leaves the state, elapsed_secs and the event queue as they were; no other
\* call fails.
C33_FailedCallChangesNothing ==
    [][ret' = InvalidState =>
         /\ lastOp' \in {"schedule", "cancel", "execute_now"}
         /\ scheduler'.state = scheduler.state
         /\ scheduler'.elapsed_secs = scheduler.elapsed_secs
         /\ scheduler'.events = scheduler.events]_vars

\* execute_now() has been refused after the countdown ran out: the state is
\* Executed, elapsed_secs is what the countdown left and the queue is not
\* empty.
C33_Witness ==
    /\ lastOp = "execute_now"
    /\ ret = InvalidState
    /\ scheduler.state = "Executed"
    /\ scheduler.elapsed_secs > 0
    /\ scheduler.events # <<>>

\* C34: a tick() in Idle, Executed or Cancelled returns false and changes
\* neither the state nor elapsed_secs nor the queue; Executed is left only by
\* reset(), and no call made in Executed returns true.
C34_IdleTickIsNoOp ==
    [][/\ (lastOp' = "tick" /\ scheduler.state \in {"Idle", "Executed", "Cancelled"}) =>
            /\ ret' = OkFalse
            /\ scheduler' = scheduler
       /\ (scheduler.state = "Executed" /\ scheduler'.state # "Executed") =>
            lastOp' = "reset"
       /\ scheduler.state = "Executed" => ret' # OkTrue]_vars

\* A tick() has followed the tick that executed: it returned false and the
\* Executed event is still the last one.
C34_Witness ==
    /\ lastOp = "tick"
    /\ ret = OkFalse
    /\ scheduler.state = "Executed"
    /\ scheduler.elapsed_secs > 0
    /\ Len(scheduler.events) >= 2
    /\ LastEvent = Executed
    /\ scheduler.events[Len(scheduler.events) - 1] = CountdownTick(0)

\* C35: a successful schedule() leaves the state Pending whatever the two
\* durations are, and the first tick() after it returns false; with
\* pre_warning_secs = 0 a tick() in Pending moves to Countdown, with
\* countdown_secs = 0 a tick() in Countdown appends CountdownTick{0} and
\* Executed and returns true; so a tick() that returns true is at least the
\* second tick since schedule().
C35_TwoTicksAtLeast ==
    [][/\ (lastOp' = "schedule" /\ ret' = Ok) => scheduler'.state = "Pending"
       /\ (lastOp' = "tick" /\ ticks = 0) => ret' = OkFalse
       /\ (lastOp' = "tick" /\ scheduler.state = "Pending"
              /\ scheduler.pre_warning_secs = 0) =>
            /\ ret' = OkFalse
            /\ scheduler'.state = "Countdown"
       /\ (lastOp' = "tick" /\ scheduler.state = "Countdown"
              /\ scheduler.countdown_secs = 0) =>
            /\ ret' = OkTrue
            /\ scheduler'.state = "Executed"
            /\ scheduler'.events = scheduler.events \o <<CountdownTick(0), Executed>>
       /\ (lastOp' = "tick" /\ ret' = OkTrue) => ticks' >= 2]_vars

\* With both durations 0 the second tick after schedule() has executed.
C35_Witness ==
    /\ scheduler.pre_warning_secs = 0
    /\ scheduler.countdown_secs = 0
    /\ lastOp = "tick"
    /\ ret = OkTrue
    /\ ticks = 2
    /\ scheduler.events =
          <<PreWarning(0), CountdownStarted(0), CountdownTick(0), Executed>>

-----------------------------------------------------------------------------
(* The events of one scheduling cycle, checked under Spec.  PreWarning is    *)
(* pushed by a successful schedule() only and take_events() takes the whole  *)
(* queue, so the events queued from one PreWarning up to the next are all    *)
(* the events emitted so far in the cycle that PreWarning began.             *)

\* The positions of the queue at which a cycle begins.
CycleStarts == {i \in 1..Len(scheduler.events) : scheduler.events[i].kind = "PreWarning"}

\* The events queued from the PreWarning at position i up to the next one.
CycleFrom(i) ==
    LET later == {j \in CycleStarts : j > i}
        last == IF later = {} THEN Len(scheduler.events)
                ELSE (CHOOSE j \in later : \A k \in later : j <= k) - 1
    IN SubSeq(scheduler.events, i, last)

\* The positions of s that hold an event of one of these kinds.
Positions(s, kinds) == {j \in 1..Len(s) : s[j].kind \in kinds}

\* What C32 says of the events s of one cycle, for a countdown whose n-th
\* tick is to carry first(n).
CycleOrder(s, first(_)) ==
    LET started == Positions(s, {"CountdownStarted"})
        ticked == Positions(s, {"CountdownTick"})
        terminal == Positions(s, {"Executed", "Cancelled"})
    IN
    /\ s[1].kind = "PreWarning"
    /\ Cardinality(started) <= 1
    /\ \A i \in started, j \in ticked : i < j
    /\ \A j \in ticked :
          s[j].remaining_seconds = first(Cardinality({i \in ticked : i <= j}))
    /\ Cardinality(terminal) <= 1
    /\ \A j \in terminal : j = Len(s)

\* C32 (as stated): in every cycle PreWarning comes first, CountdownStarted
\* at most once and before any CountdownTick, the n-th CountdownTick carries
\* countdown_secs - n, and at most one of Executed and Cancelled is emitted,
\* as the last event of the cycle.
C32_CycleEventOrder ==
    \A i \in CycleStarts :
        LET from(n) == scheduler.countdown_secs - n IN CycleOrder(CycleFrom(i), from)

\* C32 (amended): the same, with the n-th CountdownTick carrying
\* countdown_secs - n where that is not negative and 0 otherwise, which is
\* the single CountdownTick{0} of a countdown of 0 seconds.
C32_CycleEventOrderSaturating ==
    \A i \in CycleStarts :
        LET from(n) == saturating_sub(scheduler.countdown_secs, n)
        IN CycleOrder(CycleFrom(i), from)

\* A whole cycle is queued after a cancelled one: warning, start of the
\* countdown, both ticks of a countdown of 2 seconds and the execution.
C32_Witness ==
    /\ Cardinality(CycleStarts) = 2
    /\ \E i \in CycleStarts :
          /\ CycleFrom(i)[Len(CycleFrom(i))] = Cancelled
          /\ \E j \in CycleStarts :
                /\ i < j
                /\ CycleFrom(j) = <<PreWarning(scheduler.pre_warning_secs),
                                    CountdownStarted(2), CountdownTick(1),
                                    CountdownTick(0), Executed>>

-----------------------------------------------------------------------------
(* A failed evaluation, checked under ConditionSpec *)

\* C36: an evaluate() that fails with the missing-metric error leaves
\* below_since as it found it, and the below-threshold evaluate() that
\* follows it keeps that latch and reports the whole seconds since it (or
\* latches at its own time if there was no streak).
C36_FailedEvaluateKeepsStreak ==
    [][/\ (lastOp' = "evaluate" /\ ret'.kind = "Err(MissingData)") =>
            condition'.value.below_since = condition.value.below_since
       /\ (/\ lastOp = "evaluate" /\ ret.kind = "Err(MissingData)"
           /\ lastOp' = "evaluate" /\ ret'.kind \in {"Ok(InProgress)", "Ok(Met)"}) =>
            LET since == IF latched = None THEN now' ELSE latched.value
                elapsed == (now' - since) \div UnitsPerSec
            IN /\ condition'.value.below_since = Some(since)
               /\ ret' = IF elapsed >= condition.value.required_duration_secs
                         THEN Met ELSE InProgress(elapsed)]_vars

\* A bag without the metric has arrived a second or more into a streak that
\* has not yet lasted the required duration.
C36_Witness ==
    /\ lastOp = "evaluate"
    /\ ret.kind = "Err(MissingData)"
    /\ latched # None
    /\ condition.value.below_since = latched
    /\ as_secs(now - latched.value) >= 1
    /\ as_secs(now - latched.value) < condition.value.required_duration_secs

\* C37: pause_monitoring returns Ok exactly when it finds the status
\* Monitoring, and then sets it to Paused; resume_monitoring returns Ok
\* exactly when it finds the status Paused, and then sets it to Monitoring;
\* otherwise each returns an error and leaves the status as it was; neither
\* touches the scheduler, the speed monitor, the condition or the config.
C37_PauseResume ==
    [][/\ Completes("pause_monitoring") =>
            /\ ret' = IF status = "Monitoring" THEN Ok ELSE ErrString
            /\ status' = IF status = "Monitoring" THEN "Paused" ELSE status
            /\ UNCHANGED <<scheduler, monitor, condition, config>>
       /\ Completes("resume_monitoring") =>
            /\ ret' = IF status = "Paused" THEN Ok ELSE ErrString
            /\ status' = IF status = "Paused" THEN "Monitoring" ELSE status
            /\ UNCHANGED <<scheduler, monitor, condition, config>>]_vars

\* A session was started, paused and resumed.
C37_Witness ==
    /\ lastOp = "resume_monitoring"
    /\ ret = Ok
    /\ status = "Monitoring"
    /\ config # None
    /\ monitor # None
    /\ condition # None

\* No handler is in flight.
Quiescent == \A t \in TaskIds : tasks[t] = NoTask

\* C38: whenever no handler is in flight, status TriggerPending implies that
\* the scheduler is Pending and status Executed implies that it is Executed.
C38_StatusAgreesWithScheduler ==
    Quiescent =>
        /\ status = "TriggerPending" => scheduler.state = "Pending"
        /\ status = "Executed" => scheduler.state = "Executed"

\* C39: whenever no handler is in flight, status Monitoring or Paused implies
\* that config, speed monitor and threshold condition are all present.
C39_MonitoringImpliesSession ==
    (Quiescent /\ status \in {"Monitoring", "Paused"}) =>
        /\ config # None
        /\ monitor # None
        /\ condition # None

\* C40: the handlers cannot block each other for ever on the mutexes: every
\* handler that has started returns.
C40_HandlersComplete ==
    \A t \in TaskIds : (tasks[t] # NoTask) ~> (tasks[t] = NoTask)

\* get_current_speed has returned while a start_monitoring that began before
\* it was holding the scheduler guard.
C40_Witness ==
    /\ lastOp = "get_current_speed"
    /\ \E t \in TaskIds :
          /\ tasks[t].cmd = "start_monitoring"
          /\ "scheduler" \in tasks[t].guards
    /\ monitor # None

====
